---- MODULE Spec2Model ----
(***************************************************************************)
(* The assembler and register machine of src/code_system.rs.               *)
(*                                                                         *)
(* CodeExecutor owns a 4096-byte program buffer and a VirtualCpu.          *)
(* compile_code turns source text into bytes of the buffer and returns     *)
(* their number; execute interprets the first bytecode_len bytes.          *)
(*                                                                         *)
(* Text is a TLA+ string; a character is a string of length one.           *)
(***************************************************************************)
EXTENDS Integers, Sequences, FiniteSets, TLC

(***************************************************************************)
(* Program constants.                                                      *)
(***************************************************************************)
MemorySize == 4096
MaxInstructions == 10000
MaxParts == 8
InstrBufLen == 16
EqualFlag == 64

OpNop == 144
OpMovEax == 184
OpMovEbx == 187
OpMovEcx == 185
OpMovEdx == 186
OpAdd == 1
OpSub == 41
OpCmp == 61
OpJe == 116
OpJmp == 235
OpInt3 == 204
OpRet == 195
ModRmEaxEbx == 216

\* A u32 is the pair <<hi, lo>> of its 16-bit halves (value hi * 65536 + lo):
\* the checker's integers are narrower than 32 unsigned bits.
Half == 65536

(***************************************************************************)
(* Generic helpers.                                                        *)
(***************************************************************************)
Min(S) == CHOOSE m \in S : \A x \in S : m <= x
Max(S) == CHOOSE m \in S : \A x \in S : x <= m

At(s, i) == SubSeq(s, i, i)

\* Mutant: only the first two tokens are kept.
TakeTwo(seq, n) == SubSeq(seq, 1, IF Len(seq) < 2 THEN Len(seq) ELSE 2)

Take(seq, n) == SubSeq(seq, 1, IF Len(seq) < n THEN Len(seq) ELSE n)

RECURSIVE SortedSeq(_)
SortedSeq(S) ==
    IF S = {} THEN <<>>
    ELSE LET m == Min(S) IN <<m>> \o SortedSeq(S \ {m})

(***************************************************************************)
(* core::str: the library calls compile_code makes on its text.            *)
(***************************************************************************)
Whitespace == {" ", "\t", "\r", "\n", "\f"}
IsWs(c) == c \in Whitespace

StartsWith(s, p) == Len(s) >= Len(p) /\ SubSeq(s, 1, Len(p)) = p

\* Mutant: only the trailing whitespace is taken off.
TrimEndOnly(s) ==
    LET keep == {i \in 1..Len(s) : ~IsWs(At(s, i))}
    IN  IF keep = {} THEN "" ELSE SubSeq(s, 1, Max(keep))

\* str::trim: the text without its leading and trailing whitespace.
Trim(s) ==
    LET keep == {i \in 1..Len(s) : ~IsWs(At(s, i))}
    IN  IF keep = {} THEN "" ELSE SubSeq(s, Min(keep), Max(keep))

\* Mutant: the trailing commas are kept.
KeepTrailingCommas(s) == s

\* str::trim_end_matches(','): the text without its trailing commas.
TrimEndMatchesComma(s) ==
    LET keep == {i \in 1..Len(s) : At(s, i) # ","}
    IN  IF keep = {} THEN "" ELSE SubSeq(s, 1, Max(keep))

\* str::split_whitespace: the maximal runs of non-whitespace, in order.
SplitWhitespace(s) ==
    LET n      == Len(s)
        starts == {i \in 1..n : ~IsWs(At(s, i)) /\ (i = 1 \/ IsWs(At(s, i - 1)))}
        EndOf(i) == Min({j \in i..n : j = n \/ IsWs(At(s, j + 1))})
        order  == SortedSeq(starts)
    IN  [k \in 1..Len(order) |-> SubSeq(s, order[k], EndOf(order[k]))]

\* The pieces of s between line feeds (str::split('\n')), by halving.
RECURSIVE SplitNL(_)
SplitNL(s) ==
    IF Len(s) = 0 THEN <<"">>
    ELSE IF Len(s) = 1 THEN (IF s = "\n" THEN <<"", "">> ELSE <<s>>)
    ELSE LET mid == Len(s) \div 2
             l   == SplitNL(SubSeq(s, 1, mid))
             r   == SplitNL(SubSeq(s, mid + 1, Len(s)))
         IN  SubSeq(l, 1, Len(l) - 1) \o <<l[Len(l)] \o r[1]>> \o Tail(r)

\* str::lines: the pieces between line feeds, a carriage return before a line
\* feed removed, and no empty last line.
Lines(s) ==
    LET pieces == SplitNL(s)
        n      == Len(pieces)
        kept   == IF pieces[n] = "" THEN n - 1 ELSE n
        Strip(p, last) ==
            IF ~last /\ Len(p) > 0 /\ At(p, Len(p)) = "\r"
            THEN SubSeq(p, 1, Len(p) - 1) ELSE p
    IN  [k \in 1..kept |-> Strip(pieces[k], k = n)]

(***************************************************************************)
(* Characters as numbers: the comparisons and subtractions on bytes.       *)
(***************************************************************************)
UpperLetters == "ABCDEFGHIJKLMNOPQRSTUVWXYZ"
LowerLetters == "abcdefghijklmnopqrstuvwxyz"
DecDigits == "0123456789"

\* The places of character c in text t (at most one for the tables above).
Places(t, c) == {i \in 1..Len(t) : At(t, i) = c}

\* Mutant: no byte is folded.
LowerByteKeeps(c) == c

\* byte + 32 when the byte is in 'A'..='Z', the byte otherwise (lines 95-99).
LowerByte(c) ==
    IF Places(UpperLetters, c) # {}
    THEN At(LowerLetters, Min(Places(UpperLetters, c)))
    ELSE c

RECURSIVE MapLower(_)
MapLower(s) == IF Len(s) = 0 THEN "" ELSE LowerByte(At(s, 1)) \o MapLower(Tail(s))

\* instruction_lower: the first 16 bytes of the mnemonic, A-Z folded.
InstructionLower(tok) ==
    MapLower(SubSeq(tok, 1, IF Len(tok) < InstrBufLen THEN Len(tok) ELSE InstrBufLen))

(***************************************************************************)
(* u32 arithmetic on <<hi, lo>> halves.                                    *)
(***************************************************************************)
U32(n) == <<n \div Half, n % Half>>
Zero32 == <<0, 0>>

\* (r << 4) | d for a hex digit d: the four top bits fall off (lines 257-261).
Shl4Or(r, d) ==
    <<((r[1] * 16) + (r[2] \div 4096)) % Half, ((r[2] * 16) % Half) + d>>

\* r * 10 + d: the wrapped result, and whether the u32 overflowed (line 271).
Mul10Add(r, d) ==
    LET lo == (r[2] * 10) + d
        hi == (r[1] * 10) + (lo \div Half)
    IN  [val |-> <<hi % Half, lo % Half>>, overflow |-> hi >= Half]

\* Mutant: the halves are added without the carry between them.
WrappingAddNoCarry(a, b) == <<(a[1] + b[1]) % Half, (a[2] + b[2]) % Half>>

WrappingAdd(a, b) ==
    LET lo == a[2] + b[2]
    IN  <<(a[1] + b[1] + (lo \div Half)) % Half, lo % Half>>

WrappingSub(a, b) ==
    LET lo == a[2] - b[2] + Half
        borrow == 1 - (lo \div Half)
    IN  <<(a[1] - b[1] - borrow + Half) % Half, lo % Half>>

\* Mutant: the bytes most significant first.
ToBeBytes(v) == <<v[1] \div 256, v[1] % 256, v[2] \div 256, v[2] % 256>>

\* u32::to_le_bytes and u32::from_le_bytes.
ToLeBytes(v) == <<v[2] % 256, v[2] \div 256, v[1] % 256, v[1] \div 256>>
FromLeBytes(b) == <<(b[4] * 256) + b[3], (b[2] * 256) + b[1]>>

\* Mutant: a value above 255 becomes 255.
AsU8Saturating(v) == IF v[1] > 0 \/ v[2] > 255 THEN 255 ELSE v[2]

\* `as u8` of a u32: its low eight bits.
AsU8(v) == v[2] % 256

\* `as i8` of a byte: the byte read as two's complement.
\* Mutant: the byte is taken as it is.
AsI8Unsigned(b) == b

AsI8(b) == IF b >= 128 THEN b - 256 ELSE b

(***************************************************************************)
(* Results.                                                                *)
(***************************************************************************)
Ok(v) == [kind |-> "Ok", val |-> v]
Err(msg) == [kind |-> "Err", msg |-> msg]
\* A Rust panic (index out of bounds, or arithmetic overflow in a build with
\* overflow checks): the panic handler of main.rs never returns.
Panic == [kind |-> "Panic"]
None == [kind |-> "None"]

(***************************************************************************)
(* parse_immediate (lines 251-278).  `checks` says whether the build       *)
(* panics on integer overflow (debug profile) or wraps (release profile).  *)
(***************************************************************************)
HexLower == "abcdef"
HexUpper == "ABCDEF"

\* Mutant: the upper-case hex digits are not accepted.
HexDigitValueLowerOnly(c) ==
    IF Places(DecDigits, c) # {} THEN Min(Places(DecDigits, c)) - 1
    ELSE IF Places(HexLower, c) # {} THEN Min(Places(HexLower, c)) - 1 + 10
    ELSE -1

\* The match on a hex digit (lines 258-263); -1 for any other character.
HexDigitValue(c) ==
    IF Places(DecDigits, c) # {} THEN Min(Places(DecDigits, c)) - 1
    ELSE IF Places(HexLower, c) # {} THEN Min(Places(HexLower, c)) - 1 + 10
    ELSE IF Places(HexUpper, c) # {} THEN Min(Places(HexUpper, c)) - 1 + 10
    ELSE -1

IsAsciiDigit(c) == Places(DecDigits, c) # {}

RECURSIVE ParseHex(_, _, _)
ParseHex(s, i, result) ==
    IF i > Len(s) THEN Ok(result)
    ELSE LET d == HexDigitValue(At(s, i))
         IN  IF d < 0 THEN Err("Invalid hex digit")
             ELSE ParseHex(s, i + 1, Shl4Or(result, d))

RECURSIVE ParseDec(_, _, _, _)
ParseDec(s, i, result, checks) ==
    IF i > Len(s) THEN Ok(result)
    ELSE IF ~IsAsciiDigit(At(s, i)) THEN Err("Invalid decimal digit")
    ELSE LET m == Mul10Add(result, Min(Places(DecDigits, At(s, i))) - 1)
         IN  IF m.overflow /\ checks THEN Panic
             ELSE ParseDec(s, i + 1, m.val, checks)

parse_immediate(s, checks) ==
    IF StartsWith(s, "0x") \/ StartsWith(s, "0X")
    THEN ParseHex(SubSeq(s, 3, Len(s)), 1, Zero32)
    ELSE ParseDec(s, 1, Zero32, checks)

(***************************************************************************)
(* memory: [u8; 4096], zero at construction (line 57).  The model keeps    *)
(* the non-zero cells; every other cell of 0..4095 holds 0.                *)
(***************************************************************************)
ZeroMemory == [i \in {} |-> 0]

Load(mem, i) == IF i \in DOMAIN mem THEN mem[i] ELSE 0

Store(mem, i, b) ==
    IF b # 0 THEN (i :> b) @@ mem
    ELSE IF i \in DOMAIN mem THEN [j \in DOMAIN mem \ {i} |-> mem[j]]
    ELSE mem

(***************************************************************************)
(* compile_code (lines 62-249).  A compile state is the buffer, the        *)
(* running bytecode_len and `ret`, None until a return or a panic.         *)
(* A write or an advance after a panic does nothing.                       *)
(***************************************************************************)
\* return Err(msg)
Fail(st, msg) == [st EXCEPT !.ret = Err(msg)]

\* self.memory[i] = b, bounds-checked as Rust indexing is.
Write(st, i, b) ==
    IF st.ret.kind # "None" THEN st
    ELSE IF i >= MemorySize THEN [st EXCEPT !.ret = Panic]
    ELSE [st EXCEPT !.mem = Store(@, i, b)]

Advance(st, n) == IF st.ret.kind # "None" THEN st ELSE [st EXCEPT !.len = @ + n]

\* self.memory[len..len + 4].copy_from_slice(&bytes)
CopyFromSlice(st, bytes) ==
    IF st.ret.kind # "None" THEN st
    ELSE IF st.len + 4 > MemorySize THEN [st EXCEPT !.ret = Panic]
    ELSE Write(Write(Write(Write(st, st.len, bytes[1]), st.len + 1, bytes[2]),
                     st.len + 2, bytes[3]), st.len + 3, bytes[4])

\* The opcode, then the parsed immediate's four bytes (lines 122-130, 194-202).
EmitOpImm32(st, opcode, src, checks) ==
    LET s1 == Advance(Write(st, st.len, opcode), 1)
        p  == parse_immediate(src, checks)
    IN  IF p.kind = "Ok" THEN Advance(CopyFromSlice(s1, ToLeBytes(p.val)), 4)
        ELSE IF p.kind = "Panic" THEN [s1 EXCEPT !.ret = Panic]
        ELSE Fail(s1, "Invalid immediate value")

\* The opcode, then the low byte of the parsed offset (lines 210-217, 222-228).
\* Mutant: a jump emits its opcode without the offset byte.
EmitJumpOpcodeOnly(st, opcode, src, checks) ==
    Advance(Write(st, st.len, opcode), 1)

EmitJump(st, opcode, src, checks) ==
    LET s1 == Write(st, st.len, opcode)
        p  == parse_immediate(src, checks)
    IN  IF p.kind = "Ok" THEN Advance(Write(s1, s1.len + 1, AsU8(p.val)), 2)
        ELSE IF p.kind = "Panic" THEN [s1 EXCEPT !.ret = Panic]
        ELSE Fail(s1, "Invalid jump offset")

EmitOne(st, opcode) ==
    IF st.len >= MemorySize THEN Fail(st, "Program too large")
    ELSE Advance(Write(st, st.len, opcode), 1)

\* Mutant: add and sub emitted as the opcode alone.
EmitRegRegOpcodeOnly(st, opcode) == EmitOne(st, opcode)

\* add and sub: one capacity check, two bytes written (lines 171-174, 182-185).
EmitRegReg(st, opcode) ==
    IF st.len >= MemorySize THEN Fail(st, "Program too large")
    ELSE Advance(Write(Write(st, st.len, opcode), st.len + 1, ModRmEaxEbx), 2)

MovCapacityExceeded(len) == len + 5 >= MemorySize
JumpCapacityExceeded(len) == len + 2 >= MemorySize

\* Mutant: the source operand is parsed before the destination is matched.
CompileMovSourceFirst(st, parts, checks) ==
    IF Len(parts) < 3 THEN Fail(st, "MOV requires 2 operands")
    ELSE LET dest == TrimEndMatchesComma(parts[2])
             p    == parse_immediate(parts[3], checks)
         IN  IF MovCapacityExceeded(st.len) THEN Fail(st, "Program too large")
             ELSE IF p.kind = "Err" THEN Fail(st, "Invalid immediate value")
             ELSE IF dest = "eax" THEN EmitOpImm32(st, OpMovEax, parts[3], checks)
             ELSE IF dest = "ebx" THEN EmitOpImm32(st, OpMovEbx, parts[3], checks)
             ELSE IF dest = "ecx" THEN EmitOpImm32(st, OpMovEcx, parts[3], checks)
             ELSE IF dest = "edx" THEN EmitOpImm32(st, OpMovEdx, parts[3], checks)
             ELSE Fail(st, "Unsupported MOV destination register")

CompileMov(st, parts, checks) ==
    IF Len(parts) < 3 THEN Fail(st, "MOV requires 2 operands")
    ELSE LET dest == TrimEndMatchesComma(parts[2])
             src  == parts[3]
         IN  IF MovCapacityExceeded(st.len) THEN Fail(st, "Program too large")
             ELSE IF dest = "eax" THEN EmitOpImm32(st, OpMovEax, src, checks)
             ELSE IF dest = "ebx" THEN EmitOpImm32(st, OpMovEbx, src, checks)
             ELSE IF dest = "ecx" THEN EmitOpImm32(st, OpMovEcx, src, checks)
             ELSE IF dest = "edx" THEN EmitOpImm32(st, OpMovEdx, src, checks)
             ELSE Fail(st, "Unsupported MOV destination register")

CompileAdd(st, parts) ==
    IF Len(parts) < 3 THEN Fail(st, "ADD requires 2 operands")
    ELSE IF TrimEndMatchesComma(parts[2]) = "eax" /\ parts[3] = "ebx"
         THEN EmitRegReg(st, OpAdd)
         ELSE Fail(st, "Unsupported ADD operands")

CompileSub(st, parts) ==
    IF Len(parts) < 3 THEN Fail(st, "SUB requires 2 operands")
    ELSE IF TrimEndMatchesComma(parts[2]) = "eax" /\ parts[3] = "ebx"
         THEN EmitRegReg(st, OpSub)
         ELSE Fail(st, "Unsupported SUB operands")

CompileCmp(st, parts, checks) ==
    IF Len(parts) < 3 THEN Fail(st, "CMP requires 2 operands")
    ELSE IF TrimEndMatchesComma(parts[2]) = "eax"
         THEN IF MovCapacityExceeded(st.len) THEN Fail(st, "Program too large")
              ELSE EmitOpImm32(st, OpCmp, parts[3], checks)
         ELSE Fail(st, "Unsupported CMP operands")

CompileJe(st, parts, checks) ==
    IF Len(parts) < 2 THEN Fail(st, "JE requires 1 operand")
    ELSE IF JumpCapacityExceeded(st.len) THEN Fail(st, "Program too large")
    ELSE EmitJump(st, OpJe, parts[2], checks)

CompileJmp(st, parts, checks) ==
    IF Len(parts) < 2 THEN Fail(st, "JMP requires 1 operand")
    ELSE IF JumpCapacityExceeded(st.len) THEN Fail(st, "Program too large")
    ELSE EmitJump(st, OpJmp, parts[2], checks)

\* The match on instruction_lower (lines 107-243).
Dispatch(st, parts, checks) ==
    LET instruction_lower == InstructionLower(parts[1])
    IN  CASE instruction_lower = "nop" -> EmitOne(st, OpNop)
          [] instruction_lower = "mov" -> CompileMov(st, parts, checks)
          [] instruction_lower = "add" -> CompileAdd(st, parts)
          [] instruction_lower = "sub" -> CompileSub(st, parts)
          [] instruction_lower = "cmp" -> CompileCmp(st, parts, checks)
          [] instruction_lower \in {"je", "jz"} -> CompileJe(st, parts, checks)
          [] instruction_lower = "jmp" -> CompileJmp(st, parts, checks)
          [] instruction_lower \in {"halt", "stop"} -> EmitOne(st, OpInt3)
          [] instruction_lower = "ret" -> EmitOne(st, OpRet)
          [] OTHER -> Fail(st, "Unknown instruction")

\* Mutant: an error does not end the loop over the lines.
CompileLineNoStop(st, raw, checks) ==
    LET line == Trim(raw)
    IN  IF line = "" \/ StartsWith(line, ";") THEN st
        ELSE LET parts == Take(SplitWhitespace(line), MaxParts)
             IN  IF Len(parts) = 0 THEN st
                 ELSE Dispatch(st, parts, checks)

\* One iteration of the loop over source.lines() (lines 66-246); nothing
\* happens once compile_code has returned or panicked.
CompileLine(st, raw, checks) ==
    IF st.ret.kind # "None" THEN st
    ELSE LET line == Trim(raw)
         IN  IF line = "" \/ StartsWith(line, ";") THEN st
             ELSE LET parts == Take(SplitWhitespace(line), MaxParts)
                  IN  IF Len(parts) = 0 THEN st
                      ELSE Dispatch(st, parts, checks)

\* The loop over lines lo..hi, by halving.
RECURSIVE CompileLines(_, _, _, _, _)
CompileLines(st, lines, lo, hi, checks) ==
    IF lo > hi THEN st
    ELSE IF lo = hi THEN CompileLine(st, lines[lo], checks)
    ELSE LET mid  == (lo + hi) \div 2
             left == CompileLines(st, lines, lo, mid, checks)
         IN  IF left.ret.kind = "Panic" THEN left
             ELSE CompileLines(left, lines, mid + 1, hi, checks)

\* compile_code: the buffer it leaves and what it returns.
compile_code(mem, source, checks) ==
    LET lines == Lines(source)
        st    == CompileLines([mem |-> mem, len |-> 0, ret |-> None],
                              lines, 1, Len(lines), checks)
    IN  [mem |-> st.mem,
         ret |-> IF st.ret.kind = "None" THEN Ok(st.len) ELSE st.ret]

(***************************************************************************)
(* vga_buffer: the number formatting the report uses.                      *)
(***************************************************************************)
HexChars == "0123456789ABCDEF"

\* n / 10 and n % 10 of a u32.
DivMod10(v) ==
    LET t == ((v[1] % 10) * Half) + v[2]
    IN  [q |-> <<v[1] \div 10, t \div 10>>, r |-> t % 10]

RECURSIVE DecimalDigits(_)
DecimalDigits(v) ==
    IF v = Zero32 THEN ""
    ELSE LET d == DivMod10(v) IN DecimalDigits(d.q) \o At(DecDigits, d.r + 1)

\* int_to_string (vga_buffer.rs lines 46-59), on a u32 widened to usize.
int_to_string(v) == IF v = Zero32 THEN "0" ELSE DecimalDigits(v)

RECURSIVE HexDigits(_)
HexDigits(v) ==
    IF v = Zero32 THEN ""
    ELSE HexDigits(<<v[1] \div 16, ((v[1] % 16) * 4096) + (v[2] \div 16)>>)
             \o At(HexChars, (v[2] % 16) + 1)

\* hex_to_string (vga_buffer.rs lines 244-265): at most eight digits.
hex_to_string(v) == IF v = Zero32 THEN "0" ELSE HexDigits(v)

(***************************************************************************)
(* Source texts handed to compile_code.  A source is described by its      *)
(* listing, a sequence of lines; SourceText is the text itself.            *)
(***************************************************************************)

NopL == [mn |-> "nop"]
HaltL == [mn |-> "halt"]
StopL == [mn |-> "stop"]
RetL == [mn |-> "ret"]
AddL == [mn |-> "add"]
SubL == [mn |-> "sub"]
MovL(reg, imm) == [mn |-> "mov", reg |-> reg, imm |-> imm]
CmpL(imm) == [mn |-> "cmp", imm |-> imm]
JeL(off) == [mn |-> "je", imm |-> off]
JzL(off) == [mn |-> "jz", imm |-> off]
JmpL(off) == [mn |-> "jmp", imm |-> off]
\* A line given as it stands.
RawL(text) == [mn |-> "raw", text |-> text]
\* n >= 1 consecutive copies of line l.
RepL(l, n) == [mn |-> "rep", line |-> l, n |-> n]

RECURSIVE Repeat(_, _)
Repeat(s, n) ==
    IF n = 0 THEN "" ELSE IF n = 1 THEN s
    ELSE Repeat(s, n \div 2) \o Repeat(s, n - (n \div 2))

RECURSIVE RenderLine(_)
RenderLine(l) ==
    CASE l.mn \in {"nop", "halt", "stop", "ret"} -> l.mn
      [] l.mn = "mov" -> "mov " \o l.reg \o ", " \o l.imm
      [] l.mn \in {"add", "sub"} -> l.mn \o " eax, ebx"
      [] l.mn = "cmp" -> "cmp eax, " \o l.imm
      [] l.mn \in {"je", "jz", "jmp"} -> l.mn \o " " \o l.imm
      [] l.mn = "raw" -> l.text
      [] l.mn = "rep" -> Repeat(RenderLine(l.line) \o "\n", l.n - 1) \o RenderLine(l.line)

RECURSIVE JoinLines(_, _)
JoinLines(ls, i) ==
    IF i > Len(ls) THEN ""
    ELSE RenderLine(ls[i]) \o (IF i < Len(ls) THEN "\n" ELSE "") \o JoinLines(ls, i + 1)

SourceText(listing) == JoinLines(listing, 1)

\* create_sample_program (lines 475-490).
create_sample_program ==
    "; sample CODE program - simple math boy 10 + 5 = 15\n"
    \o "; This program demonstrates basic arithmetic\n"
    \o "; EAX is the main register for results\n"
    \o "\n"
    \o "mov eax, 10     ; Put the number 10 into register EAX\n"
    \o "mov ebx, 5      ; Put the number 5 into register EBX\n"
    \o "add eax, ebx    ; Add EBX (5) to EAX (10), result stored in EAX\n"
    \o "halt            ; Stop the program\n"
    \o "\n"
    \o "; After running:\n"
    \o "; EAX will contain 15 (10 + 5)\n"
    \o "; EBX will contain 5 (unchanged)\n"
    \o "; The result 15 in hex is 0xF\n"

(***************************************************************************)
(* VirtualCpu (lines 21-45).  eax..edx are u32 halves; eip is a usize,     *)
(* held as an integer: a negative eip stands for the usize 2^64 + eip      *)
(* that `(... as i32 ...) as usize` gives for a negative i32.              *)
(***************************************************************************)
VirtualCpuNew ==
    [eax |-> Zero32, ebx |-> Zero32, ecx |-> Zero32, edx |-> Zero32,
     eip |-> 0, flags |-> 0]

\* Mutant: only the instruction pointer is zeroed.
ResetEipOnly(cpu) == [cpu EXCEPT !.eip = 0]

\* reset(): *self = Self::new().
Reset(cpu) == VirtualCpuNew

\* eip < bytecode_len on usize: a wrapped eip is above every length.
UsizeLess(eip, len) == eip >= 0 /\ eip < len

EqualSet(flags) == (flags \div EqualFlag) % 2 = 1
SetEqual(flags) == IF EqualSet(flags) THEN flags ELSE flags + EqualFlag
\* Mutant: an unequal compare leaves the flag as it was.
ClearEqualNever(flags) == flags

ClearEqual(flags) == IF EqualSet(flags) THEN flags - EqualFlag ELSE flags

(***************************************************************************)
(* execute: one pass of the fetch-decode loop body (lines 285-386).        *)
(* The result is the cpu and `ret`: None to go on (and count the           *)
(* instruction), Break for HALT and RET, Err for a return.                 *)
(***************************************************************************)
Break == [kind |-> "Break"]

Imm32At(mem, eip) ==
    FromLeBytes(<<Load(mem, eip + 1), Load(mem, eip + 2),
                  Load(mem, eip + 3), Load(mem, eip + 4)>>)

\* The indices Imm32At reads.
Imm32Reads(eip) == {eip + 1, eip + 2, eip + 3, eip + 4}

ExecNop(cpu) == [cpu |-> [cpu EXCEPT !.eip = @ + 1], ret |-> None, rd |-> {}]

ExecMovImm(cpu, mem, len, reg) ==
    IF cpu.eip + 5 > len THEN [cpu |-> cpu, ret |-> Err("Unexpected end of program"), rd |-> {}]
    ELSE [cpu |-> [cpu EXCEPT ![reg] = Imm32At(mem, cpu.eip), !.eip = @ + 5],
          ret |-> None, rd |-> Imm32Reads(cpu.eip)]

\* Mutant: ADD without the check of line 336.
ExecAddUnchecked(cpu, len) ==
    [cpu |-> [cpu EXCEPT !.eax = WrappingAdd(cpu.eax, cpu.ebx), !.eip = @ + 2],
     ret |-> None, rd |-> {}]

ExecAdd(cpu, len) ==
    IF cpu.eip + 2 > len THEN [cpu |-> cpu, ret |-> Err("Unexpected end of program"), rd |-> {}]
    ELSE [cpu |-> [cpu EXCEPT !.eax = WrappingAdd(cpu.eax, cpu.ebx), !.eip = @ + 2],
          ret |-> None, rd |-> {}]

ExecSub(cpu, len) ==
    IF cpu.eip + 2 > len THEN [cpu |-> cpu, ret |-> Err("Unexpected end of program"), rd |-> {}]
    ELSE [cpu |-> [cpu EXCEPT !.eax = WrappingSub(cpu.eax, cpu.ebx), !.eip = @ + 2],
          ret |-> None, rd |-> {}]

ExecCmp(cpu, mem, len) ==
    IF cpu.eip + 5 > len THEN [cpu |-> cpu, ret |-> Err("Unexpected end of program"), rd |-> {}]
    ELSE [cpu |-> [cpu EXCEPT !.flags = IF cpu.eax = Imm32At(mem, cpu.eip)
                                        THEN SetEqual(@) ELSE ClearEqual(@),
                              !.eip = @ + 5],
          ret |-> None, rd |-> Imm32Reads(cpu.eip)]

\* (self.cpu.eip as i32 + 2 + offset as i32) as usize
\* Mutant: the offset is counted from the jump itself.
JumpTargetFromJump(eip, offset) == eip + offset

JumpTarget(eip, offset) == eip + 2 + offset

ExecJe(cpu, mem, len) ==
    IF cpu.eip + 2 > len THEN [cpu |-> cpu, ret |-> Err("Unexpected end of program"), rd |-> {}]
    ELSE LET offset == AsI8(Load(mem, cpu.eip + 1))
         IN  [cpu |-> [cpu EXCEPT !.eip = IF EqualSet(cpu.flags)
                                           THEN JumpTarget(@, offset) ELSE @ + 2],
              ret |-> None, rd |-> {cpu.eip + 1}]

ExecJmp(cpu, mem, len) ==
    IF cpu.eip + 2 > len THEN [cpu |-> cpu, ret |-> Err("Unexpected end of program"), rd |-> {}]
    ELSE LET offset == AsI8(Load(mem, cpu.eip + 1))
         IN  [cpu |-> [cpu EXCEPT !.eip = JumpTarget(@, offset)], ret |-> None,
              rd |-> {cpu.eip + 1}]

ExecTerminator(cpu) == [cpu |-> cpu, ret |-> Break, rd |-> {}]

\* Mutant: a byte that is no opcode is skipped.
ExecUnknownSkips(cpu) == [cpu |-> [cpu EXCEPT !.eip = @ + 1], ret |-> None, rd |-> {}]

ExecUnknown(cpu) == [cpu |-> cpu, ret |-> Err("Unknown opcode"), rd |-> {}]

Step(cpu, mem, len) ==
    LET opcode == Load(mem, cpu.eip)
    IN  CASE opcode = OpNop -> ExecNop(cpu)
          [] opcode = OpMovEax -> ExecMovImm(cpu, mem, len, "eax")
          [] opcode = OpMovEbx -> ExecMovImm(cpu, mem, len, "ebx")
          [] opcode = OpMovEcx -> ExecMovImm(cpu, mem, len, "ecx")
          [] opcode = OpMovEdx -> ExecMovImm(cpu, mem, len, "edx")
          [] opcode = OpAdd -> ExecAdd(cpu, len)
          [] opcode = OpSub -> ExecSub(cpu, len)
          [] opcode = OpCmp -> ExecCmp(cpu, mem, len)
          [] opcode = OpJe -> ExecJe(cpu, mem, len)
          [] opcode = OpJmp -> ExecJmp(cpu, mem, len)
          [] opcode = OpInt3 -> ExecTerminator(cpu)
          [] opcode = OpRet -> ExecTerminator(cpu)
          [] OTHER -> ExecUnknown(cpu)

\* The loop condition (line 284).
\* Mutant: the loop goes on whatever the instruction pointer is.
LoopConditionCountOnly(cpu, len, count) == count < MaxInstructions

\* Mutant: the loop is entered once more when the count has reached the limit.
LoopConditionInclusive(cpu, len, count) ==
    UsizeLess(cpu.eip, len) /\ count <= MaxInstructions

LoopCondition(cpu, len, count) == UsizeLess(cpu.eip, len) /\ count < MaxInstructions

\* Mutant: the limit check is off by one.
LimitExceededLate(count) == count > MaxInstructions

\* The check after the loop (lines 389-391).
LimitExceeded(count) == count >= MaxInstructions

\* The report execute writes on success (lines 393-448).
RegisterLine(name, role, v) ==
    name \o role \o int_to_string(v) \o " (decimal) = 0x" \o hex_to_string(v) \o " (hex)\n"

Report(cpu) ==
    "Program execution completed successfully!\n"
    \o "\nFinal register values:\n"
    \o "======================\n"
    \o RegisterLine("EAX", " (main result): ", cpu.eax)
    \o RegisterLine("EBX", " (secondary):   ", cpu.ebx)
    \o RegisterLine("ECX", " (counter):     ", cpu.ecx)
    \o RegisterLine("EDX", " (data):        ", cpu.edx)
    \o (IF cpu.eax = U32(15) /\ cpu.ebx = U32(5)
        THEN "\nSample program explanation:\n"
             \o "- Loaded 10 into EAX register\n"
             \o "- Loaded 5 into EBX register\n"
             \o "- Added EBX (5) to EAX (10)\n"
             \o "- Final result: EAX = 15 (which is 10 + 5)\n"
        ELSE "")
    \o "\n"

\* Mutant: the registers are reported whatever execute returns.
WrittenAlways(result, cpu) == Report(cpu)

\* What execute writes once the loop is left: nothing when it returns the
\* limit error (lines 389-391), the report otherwise (lines 393-448).
Written(result, cpu) == IF result.kind = "Ok" THEN Report(cpu) ELSE ""

Banner == "Compiling and executing CODE program...\n"

(***************************************************************************)
(* The sources the model hands to compile_code.                            *)
(***************************************************************************)
\* Bounds of the model.
MaxLines == 2
MaxRuns == 2
MaxCompiles == 2

LineKinds ==
    {NopL, MovL("eax", "10"), MovL("ebx", "5"), MovL("ecx", "0xFF"),
     AddL, SubL, CmpL("10"), JzL("1"), JmpL("0"), HaltL,
     RawL("foo"), RawL("mov eax")}

Listings(n) == UNION {[1..k -> LineKinds] : k \in 0..n}

GeneralInputs == Listings(MaxLines)

\* A whole text given as it stands.
Text(t) == <<RawL(t)>>

SampleListing == <<MovL("eax", "10"), MovL("ebx", "5"), AddL, HaltL>>
EqualJumpListing == <<MovL("eax", "5"), CmpL("5"), JeL("0"), HaltL>>
AccumulateListing == <<MovL("ebx", "5"), AddL, CmpL("5"), StopL>>

\* A jump to the last byte of the program, which is the opcode `op` (two
\* hex digits): the top byte of the immediate of the mov that ends it.
JumpInto(op) == Text("jmp 4\nmov eax, 0x" \o op \o "000000")

\* A taken je that goes back to the second byte of the program, a 0xCC.
BackwardJeText == Text("mov eax, 0xCC\ncmp eax, 0xCC\nje 245")

\* A je at the start of a program, skipped jump and nop after it.
JeFirstListing == <<JzL("1"), JmpL("0"), NopL>>

\* `mov` lines: destinations as written, with the register they name once
\* the trailing commas are off ("" when it is none of the four), and source
\* operands, with whether parse_immediate accepts them.
MovDests ==
    {[text |-> "eax,", reg |-> "eax"], [text |-> "ebx", reg |-> "ebx"],
     [text |-> "ecx,,", reg |-> "ecx"], [text |-> "edx,", reg |-> "edx"],
     [text |-> "EAX,", reg |-> ""], [text |-> "esi,", reg |-> ""],
     [text |-> ",", reg |-> ""], [text |-> ",eax", reg |-> ""],
     [text |-> "eax,x", reg |-> ""], [text |-> "10,", reg |-> ""]}

MovSources ==
    {[text |-> "10", valid |-> TRUE], [text |-> "0xFF", valid |-> TRUE],
     [text |-> "eax", valid |-> FALSE], [text |-> "ebx,", valid |-> FALSE],
     [text |-> "-1", valid |-> FALSE], [text |-> "1O", valid |-> FALSE],
     [text |-> "10,", valid |-> FALSE]}

MovLine(d, s) == "mov " \o d.text \o " " \o s.text

\* Each mnemonic with spellings that differ from it in ASCII case only, and
\* operands that make the line valid.
MnemonicFamilies ==
    {[lower |-> "nop", spellings |-> {"NOP", "Nop"}, rest |-> ""],
     [lower |-> "mov", spellings |-> {"MOV", "Mov", "mOv"}, rest |-> " ebx, 10"],
     [lower |-> "add", spellings |-> {"ADD", "aDD"}, rest |-> " eax, ebx"],
     [lower |-> "sub", spellings |-> {"SUB", "Sub"}, rest |-> " eax, ebx"],
     [lower |-> "cmp", spellings |-> {"CMP", "cMp"}, rest |-> " eax, 10"],
     [lower |-> "je", spellings |-> {"JE", "Je"}, rest |-> " 1"],
     [lower |-> "jz", spellings |-> {"JZ", "jZ"}, rest |-> " 1"],
     [lower |-> "jmp", spellings |-> {"JMP", "Jmp"}, rest |-> " 0"],
     [lower |-> "halt", spellings |-> {"HALT", "Halt"}, rest |-> ""],
     [lower |-> "stop", spellings |-> {"STOP", "sTOP"}, rest |-> ""],
     [lower |-> "ret", spellings |-> {"RET", "Ret"}, rest |-> ""]}

\* Lines whose register operands are not in lower case.
UpperOperandLines ==
    {"mov EAX, 1", "MOV Eax, 1", "add EAX, EBX", "add eax, EBX", "add Eax, ebx",
     "sub EAX, EBX", "sub eax, Ebx", "cmp EAX, 1"}

\* Lines of more than 8 tokens, with the line made of their first 8 tokens
\* and the instruction alone.
LongLines ==
    {[line   |-> "mov eax, 10     ; Put the number 10 into register EAX",
      first8 |-> "mov eax, 10 ; Put the number 10",
      bare   |-> "mov eax, 10"],
     [line   |-> "add eax, ebx    ; Add EBX (5) to EAX (10), result stored in EAX",
      first8 |-> "add eax, ebx ; Add EBX (5) to",
      bare   |-> "add eax, ebx"],
     [line   |-> "nop 1 2 3 4 5 6 7 8 9",
      first8 |-> "nop 1 2 3 4 5 6 7",
      bare   |-> "nop"],
     [line   |-> "jmp 0 mov eax, foo ; 6 7 8 9 10",
      first8 |-> "jmp 0 mov eax, foo ; 6 7",
      bare   |-> "jmp 0"],
     [line   |-> "halt\t; a\tb  c d e f g h i",
      first8 |-> "halt ; a b c d e f",
      bare   |-> "halt"],
     [line   |-> "cmp eax, 0xFF 4 5 6 7 8 mov eax",
      first8 |-> "cmp eax, 0xFF 4 5 6 7 8",
      bare   |-> "cmp eax, 0xFF"],
     [line   |-> "mov ebx, eax 4 5 6 7 8 9",
      first8 |-> "mov ebx, eax 4 5 6 7 8",
      bare   |-> "mov ebx, eax"],
     [line   |-> "foo 2 3 4 5 6 7 8 9",
      first8 |-> "foo 2 3 4 5 6 7 8",
      bare   |-> "foo"]}

\* Jump lines with operands around and above 128, with the two bytes they
\* are to compile to.
JumpLines ==
    {[line |-> "jmp 254", bytes |-> <<235, 254>>],
     [line |-> "jmp 510", bytes |-> <<235, 254>>],
     [line |-> "jmp 0x1FE", bytes |-> <<235, 254>>],
     [line |-> "jmp 4294967294", bytes |-> <<235, 254>>],
     [line |-> "jmp 0xFFFFFFFF", bytes |-> <<235, 255>>],
     [line |-> "jmp 128", bytes |-> <<235, 128>>],
     [line |-> "jmp 256", bytes |-> <<235, 0>>],
     [line |-> "jmp 127", bytes |-> <<235, 127>>],
     [line |-> "je 128", bytes |-> <<116, 128>>],
     [line |-> "jz 0xF5", bytes |-> <<116, 245>>],
     [line |-> "je 65791", bytes |-> <<116, 255>>]}

\* Sources with no instruction: empty, blank lines, lines whose first
\* character after the leading whitespace is `;`.
EmptySources ==
    {"", "\n", "\n\n\n", "   ", " \t \n\t", ";", "; only a comment", ";mov eax, 1",
     "   ; indented comment", "\t;halt", "; one\n; two\n\n   \n;three",
     "\n; halt\n  ; mov eax, 10 ; twice\n"}

SpecialInputs ==
    {Text(create_sample_program), SampleListing, EqualJumpListing,
     AccumulateListing,
     Text("jmp -2"), <<JmpL("254")>>,
     <<MovL("eax", "5"), CmpL("5"), JeL("254"), HaltL>>,
     <<NopL, NopL, NopL>>,
     <<MovL("edx", "4294967295"), RetL>>,
     <<MovL("eax", "10"), SubL, RetL>>,
     <<JmpL("128")>>,
     <<NopL, RawL("add eax, ecx"), RawL("foo")>>,
     <<RawL("; only a comment"), RawL("   "), RawL("")>>,
     <<RawL("bar"), RawL("mov eax"), RawL("foo")>>,
     <<NopL, RawL("sub eax"), RawL("mov eax, ebx"), RawL("foo")>>,
     Text("mov eax, 4294967296\nhalt"),
     Text("jmp 1\nmov eax, 10\nhalt"),
     Text("mov ebx, 5\njmp 4\nmov eax, 0x01000000"),
     BackwardJeText, Text("mov eax, 0xCC\njmp 250"), Text("je 254\nhalt"),
     <<MovL("eax", "10"), CmpL("10"), CmpL("5"), HaltL>>,
     Text("mov eax, 0x10005\ncmp eax, 5\ncmp eax, 0x10005\nhalt"),
     Text("mov eax, 4294967295\nmov ebx, 0x10001\nadd eax, ebx\nhalt"),
     Text("mov eax, 5\nmov ebx, 0x10006\nsub eax, ebx\nhalt"),
     Text("mov ebx, 5\njmp 1\nmov eax, 0xCC290501\nhalt"),
     <<MovL("edx", "4294967295"), HaltL>>,
     Text("mov ebx, 0x1000000FF\nhalt"),
     Text("mov eax, 7\ncmp eax, 7\njmp 1\nmov ebx, 0x42\nhalt"),
     Text("mov eax, 5\ncmp eax, 5\nje 0\nadd eax, ebx\njmp 0\nnop\nret")}
    \cup {JumpInto(op) : op \in {"B8", "BB", "B9", "BA", "3D", "01", "29", "74", "EB"}}
    \cup {Text(MovLine(d, s)) : d \in MovDests, s \in MovSources}
    \cup UNION {{Text(sp \o f.rest) : sp \in f.spellings} : f \in MnemonicFamilies}
    \cup {Text(t) : t \in UpperOperandLines}
    \cup {Text(c.line) : c \in LongLines}
    \cup {Text("halt\n" \o c.line) : c \in JumpLines}
    \cup {Text(t) : t \in EmptySources}
    \cup {Text("mov"), Text("mov eax,10"), Text("  mov   eax,  "), Text("mov foo")}

\* Sources that reach the end of the buffer: a halt, then as many five-byte
\* lines as leave five bytes free (4091 bytes used), then the lines of `tail`.
PadLines == ((MemorySize - 1) \div 5) - 1
Padded(tail) == <<HaltL, RepL(MovL("eax", "1"), PadLines)>> \o tail

BoundaryInputs ==
    {<<RepL(MovL("eax", "1"), PadLines + 2)>>,
     Padded(<<MovL("eax", "1")>>),
     Padded(<<CmpL("1")>>),
     Padded(<<NopL, NopL, NopL, JmpL("0")>>),
     Padded(<<NopL, NopL, NopL, AddL>>),
     Padded(<<AddL, AddL>>),
     Padded(<<AddL, AddL, AddL>>),
     Padded(<<AddL, AddL, SubL>>),
     Padded(<<AddL, AddL, NopL>>),
     Padded(<<AddL, AddL, NopL, NopL>>),
     Padded(<<AddL, AddL, JmpL("0")>>)}

Inputs == GeneralInputs \cup SpecialInputs \cup BoundaryInputs

\* What a used executor is handed for its next compile.
ReuseInputs == {Text(create_sample_program), EqualJumpListing,
                AccumulateListing, <<NopL>>, Text("foo"), JeFirstListing}

LoopInputs == {<<MovL("eax", "5"), CmpL("5"), JeL("254"), HaltL>>,
               <<NopL>>, <<RawL("; nothing")>>, EqualJumpListing, Text("foo")}

NoInput == <<>>

\* Operand texts: split_whitespace yields no empty token and no whitespace.
MaxTokenLen == 3

TokenChars == {"0", "1", "9", "a", "F", "g", "x", "X", "-", "+", "_"}

RECURSIVE Concat(_)
Concat(f) == IF Len(f) = 0 THEN "" ELSE f[1] \o Concat(Tail(f))

ShortTokens == {Concat(f) : f \in UNION {[1..k -> TokenChars] : k \in 1..MaxTokenLen}}

LongTokens ==
    {"0xFF", "0XfF", "255", "0xdeadBEEF", "0x7fffffff", "65536", "0x10000",
     "4294967295", "4294967296", "4294967297", "99999999999", "0xFFFFFFFF",
     "0x100000000", "0x1FFFFFFFF", "4294967296-", "42949672950_", "12_3",
     "0x12_3", "-12", "+12", "0x-1"}

Tokens == ShortTokens \cup LongTokens

(***************************************************************************)
(* The file store execute_code_file reads (file_system.rs) and             *)
(* core::str::from_utf8.  A file's data is a sequence of bytes.            *)
(***************************************************************************)
\* The ASCII characters 32..95 and 97..126 in the order of their bytes.
PrintableLow ==
    " !\"#$%&'()*+,-./0123456789:;<=>?@ABCDEFGHIJKLMNOPQRSTUVWXYZ[\\]^_"

PrintableHigh == "abcdefghijklmnopqrstuvwxyz{|}~"

\* The byte of an ASCII character (str::as_bytes), for the characters of the
\* stored texts.
Ord(c) ==
    IF Places(PrintableLow, c) # {} THEN Min(Places(PrintableLow, c)) + 31
    ELSE IF Places(PrintableHigh, c) # {} THEN Min(Places(PrintableHigh, c)) + 96
    ELSE CASE c = "\t" -> 9 [] c = "\n" -> 10 [] c = "\f" -> 12 [] c = "\r" -> 13

AsBytes(t) == [i \in 1..Len(t) |-> Ord(At(t, i))]

\* The text of one byte of valid UTF-8.  compile_code compares its text with
\* ASCII only, so a scalar beyond ASCII (and a control character or grave
\* accent, which the stored texts do not use) is kept as the one character "?", written at its first
\* byte.
IsCont(x) == 128 <= x /\ x <= 191

CharOf(x) ==
    IF 32 <= x /\ x <= 95 THEN At(PrintableLow, x - 31)
    ELSE IF 97 <= x /\ x <= 126 THEN At(PrintableHigh, x - 96)
    ELSE IF IsCont(x) THEN ""
    ELSE CASE x = 9 -> "\t" [] x = 10 -> "\n" [] x = 12 -> "\f" [] x = 13 -> "\r"
           [] OTHER -> "?"

RECURSIVE DecodeRange(_, _, _)
DecodeRange(b, lo, hi) ==
    IF lo > hi THEN ""
    ELSE IF lo = hi THEN CharOf(b[lo])
    ELSE LET mid == (lo + hi) \div 2
         IN  DecodeRange(b, lo, mid) \o DecodeRange(b, mid + 1, hi)

\* The length of the sequence a first byte announces; 0 for a byte that
\* begins none (a continuation byte, 0xC0, 0xC1, 0xF5..0xFF).
Utf8Width(x) ==
    CASE x < 128 -> 1
      [] 194 <= x /\ x <= 223 -> 2
      [] 224 <= x /\ x <= 239 -> 3
      [] 240 <= x /\ x <= 244 -> 4
      [] OTHER -> 0

\* The second byte excludes overlong forms, surrogates and scalars beyond
\* U+10FFFF.
SecondByteOk(first, x) ==
    CASE first = 224 -> 160 <= x /\ x <= 191
      [] first = 237 -> 128 <= x /\ x <= 159
      [] first = 240 -> 144 <= x /\ x <= 191
      [] first = 244 -> 128 <= x /\ x <= 143
      [] OTHER -> IsCont(x)

WellFormedAt(b, i) ==
    LET w == Utf8Width(b[i])
    IN  /\ w > 0
        /\ i + w - 1 <= Len(b)
        /\ w >= 2 => SecondByteOk(b[i], b[i + 1])
        /\ \A k \in (i + 2)..(i + w - 1) : IsCont(b[k])

\* A continuation byte belongs to the sequence of a first byte before it.
Covered(b, i) ==
    \E j \in Max({1, i - 3})..(i - 1) :
        /\ ~IsCont(b[j])
        /\ Utf8Width(b[j]) > i - j
        /\ \A k \in (j + 1)..(i - 1) : IsCont(b[k])

ValidUtf8(b) ==
    \A i \in 1..Len(b) : IF IsCont(b[i]) THEN Covered(b, i) ELSE WellFormedAt(b, i)

\* Mutant: the bytes are decoded without being validated.
FromUtf8Unchecked(b) == Ok(DecodeRange(b, 1, Len(b)))

\* core::str::from_utf8(file_data) (line 461).
FromUtf8(b) ==
    IF ValidUtf8(b) THEN Ok(DecodeRange(b, 1, Len(b))) ELSE Err("Utf8Error")

\* FileEntry: the name and the data up to their lengths, and `exists`.
FileEntry(name, data, exists) == [name |-> name, data |-> data, exists |-> exists]

\* FileEntry::new(): an unused slot.
FileEntryNew == FileEntry("", <<>>, FALSE)

\* name_matches (file_system.rs lines 160-172).
NameMatches(file, path) ==
    /\ Len(path) = Len(file.name)
    /\ \A i \in 1..Len(file.name) : At(path, i) = At(file.name, i)

\* find_file (lines 312-319): the first slot that exists and has the name.
FindFile(files, path) ==
    LET hits == {i \in 1..Len(files) : files[i].exists /\ NameMatches(files[i], path)}
    IN  IF hits = {} THEN None ELSE Ok(Min(hits))

\* read_file (lines 346-352).
read_file(files, path) ==
    LET found == FindFile(files, path)
    IN  IF found.kind = "Ok" THEN Ok(files[found.val].data) ELSE Err("FileNotFound")

\* OsFileSystem.files: [FileEntry; 8] as the shell can have left it: texts
\* saved whole, data whose last bytes are no UTF-8 (the editor stores
\* `c as u8`), an empty file and unused slots.
Files ==
    <<FileEntry("demo.code", AsBytes(create_sample_program), TRUE),
      FileEntry("nop.code", AsBytes("nop"), TRUE),
      FileEntryNew,
      FileEntry("bad.code", AsBytes("nop\n") \o <<255>>, TRUE),
      FileEntry("cut.code", AsBytes("halt\n; caf") \o <<195>>, TRUE),
      FileEntry("cafe.code", AsBytes("mov ebx, 5 ; caf") \o <<195, 169>> \o AsBytes("\nret"), TRUE),
      FileEntry("empty.code", <<>>, TRUE),
      FileEntry("foo.code", AsBytes("foo"), TRUE)>>

\* The names `run` is given: the stored ones, and names of no file.
AskedNames ==
    {Files[i].name : i \in {k \in 1..Len(Files) : Files[k].exists}}
        \cup {"missing.code", "nop", "demo.code2"}

(***************************************************************************)
(* State.                                                                  *)
(***************************************************************************)
VARIABLES
    overflow_checks,    \* the build panics on integer overflow
    input,              \* the listing of the source last compiled
    memory,             \* CodeExecutor.memory
    cpu,                \* CodeExecutor.cpu
    compile_result,     \* what compile_code last returned
    pc,                 \* "idle", "compiled", "loop", "after_loop", "panicked"
    bytecode_len,       \* execute's argument
    instruction_count,  \* execute's local counter
    opcode,             \* execute's local: the byte last fetched (-1: none yet)
    stopped_by,         \* how the last loop ended: "break", "condition", "return"
    outcome,            \* what the last call returned to the shell
    writer,             \* the text written to the vga_buffer::Writer
    compiles,           \* calls of compile_code on this executor
    runs,               \* finished calls of execute on this executor
    history,            \* the finished runs: input, length, result, final cpu,
                        \* instructions counted and how the loop ended
    reads,              \* the indices of memory the last loop iteration read
    filename,           \* the name last given to execute_code_file
    token,              \* the operand text last given to parse_immediate
    parsed              \* what parse_immediate returned for it

vars == <<overflow_checks, input, memory, cpu, compile_result, pc, bytecode_len,
          instruction_count, opcode, stopped_by, outcome, writer, compiles, runs,
          history, reads, filename, token, parsed>>

\* CodeExecutor::new() (lines 54-60), in either build profile.
Init ==
    /\ overflow_checks \in BOOLEAN
    /\ input = NoInput
    /\ memory = ZeroMemory
    /\ cpu = VirtualCpuNew
    /\ compile_result = None
    /\ pc = "idle"
    /\ bytecode_len = 0
    /\ instruction_count = 0
    /\ opcode = -1
    /\ stopped_by = "none"
    /\ outcome = None
    /\ writer = ""
    /\ compiles = 0
    /\ runs = 0
    /\ history = <<>>
    /\ reads = {}
    /\ filename = ""
    /\ token = ""
    /\ parsed = None

\* executor.compile_code(source_code)? (line 464): an error is returned to
\* the caller, a panic never returns.
CompileCode(in) ==
    /\ pc = "idle"
    /\ compiles < MaxCompiles
    /\ runs < MaxRuns
    /\ \E r \in {compile_code(memory, SourceText(in), overflow_checks)} :
           /\ memory' = r.mem
           /\ compile_result' = r.ret
           /\ pc' = CASE r.ret.kind = "Ok" -> "compiled"
                      [] r.ret.kind = "Err" -> "idle"
                      [] OTHER -> "panicked"
           /\ outcome' = IF r.ret.kind = "Err" THEN r.ret ELSE None
    /\ input' = in
    /\ compiles' = compiles + 1
    /\ reads' = reads
    /\ UNCHANGED <<filename, token, parsed, overflow_checks, cpu, bytecode_len, instruction_count,
                   opcode, stopped_by, writer, runs, history>>

\* if bytecode_len == 0 { return Err(...) } (lines 466-468).
NoExecutableCode ==
    /\ pc = "compiled"
    /\ compile_result.val = 0
    /\ pc' = "idle"
    /\ outcome' = Err("No executable code found")
    /\ reads' = reads
    /\ UNCHANGED <<filename, token, parsed, overflow_checks, input, memory, cpu, compile_result,
                   bytecode_len, instruction_count, opcode, stopped_by, writer,
                   compiles, runs, history>>

\* The entry of execute (lines 281-282).
EnterExecute ==
    /\ cpu' = Reset(cpu)
    /\ instruction_count' = 0
    /\ opcode' = -1
    /\ bytecode_len' = compile_result.val
    /\ pc' = "loop"
    /\ stopped_by' = "none"
    /\ outcome' = None
    /\ reads' = {}
    /\ UNCHANGED <<filename, token, parsed, overflow_checks, input, memory, compile_result, compiles,
                   runs, history>>

\* The banner and executor.execute(bytecode_len, writer) (lines 470-472).
ExecuteBegin ==
    /\ pc = "compiled"
    /\ compile_result.val # 0
    /\ writer' = writer \o Banner
    /\ EnterExecute

\* execute called again on the same executor with the same length.
ExecuteAgain ==
    /\ pc = "idle"
    /\ compile_result.kind = "Ok"
    /\ compile_result.val # 0
    /\ runs >= 1
    /\ runs < MaxRuns
    /\ writer' = writer
    /\ EnterExecute

Finished(result, final, how) ==
    Append(history, [input |-> input, len |-> bytecode_len, outcome |-> result,
                     cpu |-> final, count |-> instruction_count, stopped |-> how])

\* One iteration of the while loop (lines 284-387).
ExecuteStep ==
    /\ pc = "loop"
    /\ LoopCondition(cpu, bytecode_len, instruction_count)
    /\ \E r \in {Step(cpu, memory, bytecode_len)} :
           /\ cpu' = r.cpu
           /\ opcode' = Load(memory, cpu.eip)
           /\ reads' = {cpu.eip} \cup r.rd
           /\ CASE r.ret.kind = "None" ->
                     /\ instruction_count' = instruction_count + 1
                     /\ UNCHANGED <<pc, stopped_by, outcome, runs, history>>
                [] r.ret.kind = "Break" ->
                     /\ pc' = "after_loop"
                     /\ stopped_by' = "break"
                     /\ UNCHANGED <<instruction_count, outcome, runs, history>>
                [] OTHER ->
                     /\ pc' = "idle"
                     /\ stopped_by' = "return"
                     /\ outcome' = r.ret
                     /\ runs' = runs + 1
                     /\ history' = Finished(r.ret, r.cpu, "return")
                     /\ UNCHANGED instruction_count
    /\ UNCHANGED <<filename, token, parsed, overflow_checks, input, memory, compile_result, bytecode_len,
                   writer, compiles>>

\* The loop is left, by break or by its condition; the limit check and the
\* report (lines 389-450).
ExecuteFinish ==
    /\ \/ pc = "after_loop"
       \/ pc = "loop" /\ ~LoopCondition(cpu, bytecode_len, instruction_count)
    /\ stopped_by' = IF pc = "after_loop" THEN stopped_by ELSE "condition"
    /\ LET result == IF LimitExceeded(instruction_count)
                     THEN Err("Program execution limit exceeded")
                     ELSE Ok(<<>>)
       IN  /\ outcome' = result
           /\ writer' = writer \o Written(result, cpu)
           /\ history' = Finished(result, cpu, stopped_by')
    /\ pc' = "idle"
    /\ runs' = runs + 1
    /\ reads' = reads
    /\ UNCHANGED <<filename, token, parsed, overflow_checks, input, memory, cpu, compile_result,
                   bytecode_len, instruction_count, opcode, compiles>>

\* execute_code_file up to the compile (lines 460-464): read_file and
\* from_utf8 with their errors mapped, then a new executor compiles the text.
ExecuteCodeFile(name) ==
    /\ pc = "idle"
    /\ compiles < MaxCompiles
    /\ runs < MaxRuns
    /\ filename' = name
    /\ \E data \in {read_file(Files, name)} :
       \E text \in {IF data.kind = "Ok" THEN FromUtf8(data.val) ELSE data} :
           IF data.kind = "Err" \/ text.kind = "Err"
           THEN /\ outcome' = IF data.kind = "Err" THEN Err("File not found")
                              ELSE Err("Invalid UTF-8 in file")
                /\ UNCHANGED <<input, memory, cpu, compile_result, pc, compiles>>
           ELSE \E r \in {compile_code(ZeroMemory, text.val, overflow_checks)} :
                    /\ input' = Text(text.val)
                    /\ memory' = r.mem
                    /\ cpu' = VirtualCpuNew
                    /\ compile_result' = r.ret
                    /\ pc' = CASE r.ret.kind = "Ok" -> "compiled"
                               [] r.ret.kind = "Err" -> "idle"
                               [] OTHER -> "panicked"
                    /\ outcome' = IF r.ret.kind = "Err" THEN r.ret ELSE None
                    /\ compiles' = compiles + 1
    /\ UNCHANGED <<token, parsed, overflow_checks, bytecode_len, instruction_count,
                   opcode, stopped_by, writer, runs, history, reads>>

\* self.parse_immediate(src) (lines 124, 135, 146, 157, 196, 212, 223) on one
\* operand text; a panic never returns.
ParseOperand(tok) ==
    /\ pc = "idle"
    /\ parsed = None
    /\ token' = tok
    /\ parsed' = parse_immediate(tok, overflow_checks)
    /\ pc' = IF parsed'.kind = "Panic" THEN "panicked" ELSE pc
    /\ UNCHANGED <<overflow_checks, input, memory, cpu, compile_result,
                   bytecode_len, instruction_count, opcode, stopped_by, outcome,
                   writer, compiles, runs, history, reads, filename>>

Next ==
    \/ \E in \in (IF compiles = 0 THEN Inputs ELSE ReuseInputs) : CompileCode(in)
    \/ NoExecutableCode
    \/ ExecuteBegin
    \/ ExecuteAgain
    \/ ExecuteStep
    \/ ExecuteFinish

Spec == Init /\ [][Next]_vars

\* The same executor fed the sources that exercise the loop of execute:
\* programs that never leave it, that leave it by a terminator, by running
\* off the end or by a jump, and sources that do not compile.
LoopNext ==
    \/ \E in \in LoopInputs : CompileCode(in)
    \/ NoExecutableCode
    \/ ExecuteBegin
    \/ ExecuteAgain
    \/ ExecuteStep
    \/ ExecuteFinish

\* execute runs to its return once entered: the loop is sequential code.
FairSpec ==
    Init /\ [][LoopNext]_vars /\ WF_vars(ExecuteStep) /\ WF_vars(ExecuteFinish)

\* A loop that counts EAX up to n and then goes on to the tail: with
\* `mov ebx, 1` at 0, `add eax, ebx` at 5, `cmp eax, n` at 7, `je 2` at 12 and
\* `jmp 245` (back to 5) at 14 it executes 4 * n instructions before the
\* first instruction of the tail, at 16.
CountingLoop(n, tail) ==
    "mov ebx, 1\nadd eax, ebx\ncmp eax, " \o n \o "\nje 2\njmp 245\n" \o tail

\* Programs that execute 9999 or 10000 instructions before a terminator or
\* the end of the program, with the instructions they count and whether
\* they are to succeed; and a source with no instruction.
LimitCases ==
    {[text |-> CountingLoop("2499", "nop\nnop\nnop\nhalt"), count |-> 9999, ok |-> TRUE],
     [text |-> CountingLoop("2499", "nop\nnop\nnop\nret"), count |-> 9999, ok |-> TRUE],
     [text |-> CountingLoop("2499", "nop\nnop\nnop"), count |-> 9999, ok |-> TRUE],
     [text |-> CountingLoop("2500", "halt"), count |-> 10000, ok |-> FALSE],
     [text |-> CountingLoop("2500", "ret"), count |-> 10000, ok |-> FALSE],
     [text |-> CountingLoop("2500", ""), count |-> 10000, ok |-> FALSE],
     [text |-> CountingLoop("2499", "nop\nnop\nnop\nnop\nhalt"), count |-> 10000, ok |-> FALSE]}

LimitInputs == {Text(c.text) : c \in LimitCases} \cup {<<RawL("; nothing")>>}

\* The source compiled on an executor that has compiled one already.
LimitReuse == {Text(CountingLoop("2500", "halt"))}

\* An executor fed the programs that run up to the instruction limit.
LimitNext ==
    \/ \E in \in (IF compiles = 0 THEN LimitInputs ELSE LimitReuse) : CompileCode(in)
    \/ NoExecutableCode
    \/ ExecuteBegin
    \/ ExecuteAgain
    \/ ExecuteStep
    \/ ExecuteFinish

LimitSpec == Init /\ [][LimitNext]_vars

\* execute_code_file on the names of the store.
FileNext ==
    \/ \E name \in AskedNames : ExecuteCodeFile(name)
    \/ NoExecutableCode
    \/ ExecuteBegin
    \/ ExecuteStep
    \/ ExecuteFinish

FileSpec == Init /\ [][FileNext]_vars

\* parse_immediate applied to the operand texts.
ParseNext == \E tok \in Tokens : ParseOperand(tok)

ParseSpec == Init /\ [][ParseNext]_vars

(***************************************************************************)
(* The encodings and errors the claims state, written out independently    *)
(* of the assembler: the bytes of each operand text of the listings, and   *)
(* the bytes of each line.                                                 *)
(***************************************************************************)
ImmBytes(t) ==
    CASE t = "0" -> <<0, 0, 0, 0>>
      [] t = "1" -> <<1, 0, 0, 0>>
      [] t = "5" -> <<5, 0, 0, 0>>
      [] t = "10" -> <<10, 0, 0, 0>>
      [] t = "0xFF" -> <<255, 0, 0, 0>>
      [] t = "4294967295" -> <<255, 255, 255, 255>>

OffsetByte(t) ==
    CASE t = "0" -> 0
      [] t = "1" -> 1
      [] t = "128" -> 128
      [] t = "254" -> 254

RECURSIVE RepeatSeq(_, _)
RepeatSeq(q, n) ==
    IF n = 0 THEN <<>> ELSE IF n = 1 THEN q
    ELSE RepeatSeq(q, n \div 2) \o RepeatSeq(q, n - (n \div 2))

RECURSIVE Encoding(_)
Encoding(l) ==
    CASE l.mn = "nop" -> <<144>>
      [] l.mn = "mov" ->
            <<CASE l.reg = "eax" -> 184 [] l.reg = "ebx" -> 187
                [] l.reg = "ecx" -> 185 [] l.reg = "edx" -> 186>> \o ImmBytes(l.imm)
      [] l.mn = "add" -> <<1, 216>>
      [] l.mn = "sub" -> <<41, 216>>
      [] l.mn = "cmp" -> <<61>> \o ImmBytes(l.imm)
      [] l.mn \in {"je", "jz"} -> <<116, OffsetByte(l.imm)>>
      [] l.mn = "jmp" -> <<235, OffsetByte(l.imm)>>
      [] l.mn \in {"halt", "stop"} -> <<204>>
      [] l.mn = "ret" -> <<195>>
      [] l.mn = "rep" -> RepeatSeq(Encoding(l.line), l.n)

\* A valid line: an instruction of the listing kinds, or copies of one.
RECURSIVE ValidLine(_)
ValidLine(l) == l.mn # "raw" /\ (l.mn = "rep" => ValidLine(l.line))

AllValid(listing) == \A k \in 1..Len(listing) : ValidLine(listing[k])

RECURSIVE ExpectedFrom(_, _)
ExpectedFrom(listing, k) ==
    IF k > Len(listing) THEN <<>>
    ELSE Encoding(listing[k]) \o ExpectedFrom(listing, k + 1)

\* The in-order concatenation of the lines' encodings.
Expected(listing) == ExpectedFrom(listing, 1)

\* memory[0..len) holds the bytes e.
HoldsBytes(mem, e) == \A i \in 1..Len(e) : Load(mem, i - 1) = e[i]

C2_SampleProgramRuns ==
    /\ (compiles >= 1 /\ input = Text(create_sample_program)) =>
           /\ compile_result.kind = "Ok"
           /\ pc # "panicked"
    /\ \A k \in 1..Len(history) :
           history[k].input = Text(create_sample_program) =>
               /\ history[k].outcome.kind = "Ok"
               /\ history[k].cpu.eax = <<0, 15>>
               /\ history[k].cpu.ebx = <<0, 5>>
               /\ history[k].cpu.ecx = <<0, 0>>
               /\ history[k].cpu.edx = <<0, 0>>
               /\ history[k].cpu.flags = 0

\* The sample text has been compiled and run to its end.
C2_Witness ==
    \E k \in 1..Len(history) :
        /\ history[k].input = Text(create_sample_program)
        /\ history[k].outcome.kind = "Ok"

LimitError == Err("Program execution limit exceeded")

(***************************************************************************)
(* C3.  Compiling the one-line source `jmp -2` succeeds, and running it    *)
(* fails with the execution-limit error after exactly 10000 cycles.        *)
(***************************************************************************)
C3_JmpMinusTwoHitsLimit ==
    /\ (compiles >= 1 /\ input = Text("jmp -2")) => compile_result.kind = "Ok"
    /\ \A k \in 1..Len(history) :
           history[k].input = Text("jmp -2") =>
               /\ history[k].outcome = LimitError
               /\ history[k].count = MaxInstructions

(***************************************************************************)
(* C4.  Every call of execute terminates: the loop counts at most 10000    *)
(* instructions, and a run that counts 10000 instructions without having   *)
(* fetched HALT or RET returns the limit error, never success.             *)
(***************************************************************************)
C4_ExecuteTerminatesWithinBudget ==
    /\ [](instruction_count <= MaxInstructions)
    /\ [](\A k \in 1..Len(history) :
             (history[k].count = MaxInstructions /\ history[k].stopped # "break")
                 => history[k].outcome = LimitError)
    /\ (pc = "loop") ~> (pc = "idle")

\* A run has counted 10000 instructions and returned the limit error.
C4_Witness ==
    \E k \in 1..Len(history) :
        /\ history[k].count = MaxInstructions
        /\ history[k].outcome = LimitError

(***************************************************************************)
(* C5.  When a taken jump computes a target that is negative or at or      *)
(* beyond the program length, the run ends with a runtime error, never     *)
(* with a success report.                                                  *)
(***************************************************************************)
TakenJumpLeftProgram ==
    /\ pc = "loop"
    /\ instruction_count > 0
    /\ opcode = OpJmp \/ (opcode = OpJe /\ EqualSet(cpu.flags))
    /\ ~UsizeLess(cpu.eip, bytecode_len)

C5_WildJumpIsAnError ==
    [][TakenJumpLeftProgram => outcome'.kind = "Err"]_vars

(***************************************************************************)
(* C6.  execute returns success only after fetching HALT or RET; a program *)
(* whose instruction pointer runs to the program length without reaching   *)
(* a terminator, such as `nop`, fails with 'Unexpected end of program'.    *)
(***************************************************************************)
C6_SuccessOnlyAfterTerminator ==
    \A k \in 1..Len(history) :
        /\ history[k].outcome.kind = "Ok" => history[k].stopped = "break"
        /\ history[k].input = <<NopL>> =>
               history[k].outcome = Err("Unexpected end of program")

(***************************************************************************)
(* C7.  compile_code never writes at an index >= 4096: whenever a line's   *)
(* encoding does not fit in the remaining capacity it returns 'Program too *)
(* large' before writing anything for that line, for every instruction     *)
(* kind and every current length, the two-byte add and sub at 4095         *)
(* included.                                                               *)
(***************************************************************************)
C7_OverflowIsProgramTooLarge ==
    (compiles >= 1 /\ AllValid(input)) =>
        \E e \in {Expected(input)} :
            /\ pc # "panicked"
            /\ Len(e) > MemorySize =>
                   /\ compile_result = Err("Program too large")
                   /\ \A i \in DOMAIN memory : i < Len(e) /\ memory[i] = e[i + 1]

(***************************************************************************)
(* C8.  The threshold is exactly 4096 bytes: compile_code returns 'Program *)
(* too large' if and only if the encodings exceed 4096 bytes, and every    *)
(* source whose encodings total at most 4096 bytes compiles.               *)
(***************************************************************************)
C8_ThresholdIsExactly4096 ==
    (compiles >= 1 /\ AllValid(input)) =>
        \E e \in {Expected(input)} :
            /\ Len(e) <= MemorySize => compile_result = Ok(Len(e))
            /\ compile_result = Err("Program too large") => Len(e) > MemorySize

(***************************************************************************)
(* C9.  compile_code stops at the first malformed line and returns that    *)
(* line's error: lines after it are never examined, no length is returned, *)
(* and an unknown mnemonic such as `foo` yields 'Unknown instruction'.     *)
(***************************************************************************)
MalformedLines ==
    {"foo", "bar", "mov eax", "add eax, ecx", "sub eax", "mov eax, ebx"}

LineError(text) ==
    CASE text \in {"foo", "bar"} -> "Unknown instruction"
      [] text = "mov eax" -> "MOV requires 2 operands"
      [] text = "add eax, ecx" -> "Unsupported ADD operands"
      [] text = "sub eax" -> "SUB requires 2 operands"
      [] text = "mov eax, ebx" -> "Invalid immediate value"

Malformed(l) == l.mn = "raw" /\ l.text \in MalformedLines

\* Listings of instructions and malformed lines, with one at least of these.
HasMalformedLine(listing) ==
    /\ \A k \in 1..Len(listing) :
           listing[k].mn # "rep" /\ (ValidLine(listing[k]) \/ Malformed(listing[k]))
    /\ \E k \in 1..Len(listing) : Malformed(listing[k])

FirstMalformed(listing) == Min({k \in 1..Len(listing) : Malformed(listing[k])})

C9_FirstErrorIsReturned ==
    (compiles >= 1 /\ HasMalformedLine(input)) =>
        \E k \in {FirstMalformed(input)} :
            /\ compile_result = Err(LineError(input[k].text))
            /\ outcome = compile_result
            /\ pc = "idle"
            /\ compiles = 1 =>
                   compile_code(ZeroMemory, SourceText(SubSeq(input, 1, k)),
                                overflow_checks)
                       = [mem |-> memory, ret |-> compile_result]

\* A source with three different malformed lines has been compiled.
C9_Witness ==
    /\ compiles >= 1
    /\ input = <<NopL, RawL("sub eax"), RawL("mov eax, ebx"), RawL("foo")>>
    /\ compile_result = Err("SUB requires 2 operands")

(***************************************************************************)
(* C10.  Compile-and-run is deterministic and leaks no state between runs: *)
(* two passes over the same source on one executor give the same outcome   *)
(* and final state, because execute zeroes the registers, the instruction  *)
(* pointer and the flags before the first fetch.                           *)
(***************************************************************************)
C10_RunsDoNotLeak ==
    /\ \A j, k \in 1..Len(history) :
           history[j].input = history[k].input =>
               /\ history[j].outcome = history[k].outcome
               /\ history[j].cpu = history[k].cpu
               /\ history[j].count = history[k].count
    /\ (pc = "loop" /\ opcode = -1) => cpu = VirtualCpuNew

\* A second run of a source has finished on an executor whose first run of
\* it left a non-zero register and the equal flag set.
C10_Witness ==
    /\ Len(history) = 2
    /\ history[1].input = history[2].input
    /\ history[1].outcome.kind = "Ok"
    /\ history[1].cpu.eax # Zero32
    /\ EqualSet(history[1].cpu.flags)

(***************************************************************************)
(* The grammar of operands and the value of a numeral, written out         *)
(* independently of parse_immediate.  A value is <<hi, lo>> with           *)
(* value = hi * 65536 + lo and hi unbounded, so no numeral wraps.          *)
(***************************************************************************)
DigitTable ==
    ("0" :> 0) @@ ("1" :> 1) @@ ("2" :> 2) @@ ("3" :> 3) @@ ("4" :> 4) @@
    ("5" :> 5) @@ ("6" :> 6) @@ ("7" :> 7) @@ ("8" :> 8) @@ ("9" :> 9) @@
    ("a" :> 10) @@ ("b" :> 11) @@ ("c" :> 12) @@ ("d" :> 13) @@ ("e" :> 14) @@
    ("f" :> 15) @@ ("A" :> 10) @@ ("B" :> 11) @@ ("C" :> 12) @@ ("D" :> 13) @@
    ("E" :> 14) @@ ("F" :> 15)

DecimalChars == {"0", "1", "2", "3", "4", "5", "6", "7", "8", "9"}
HexChars16 == DOMAIN DigitTable

HexPrefixed(t) == Len(t) >= 2 /\ SubSeq(t, 1, 2) \in {"0x", "0X"}

\* The digits of the numeral: after the prefix for a hexadecimal one.
NumeralDigits(t) == IF HexPrefixed(t) THEN SubSeq(t, 3, Len(t)) ELSE t

InGrammar(t) ==
    IF HexPrefixed(t)
    THEN \A i \in 3..Len(t) : At(t, i) \in HexChars16
    ELSE Len(t) >= 1 /\ \A i \in 1..Len(t) : At(t, i) \in DecimalChars

RECURSIVE NumeralValue(_, _)
NumeralValue(ds, base) ==
    IF Len(ds) = 0 THEN <<0, 0>>
    ELSE LET front == NumeralValue(SubSeq(ds, 1, Len(ds) - 1), base)
             lo    == (front[2] * base) + DigitTable[At(ds, Len(ds))]
         IN  <<(front[1] * base) + (lo \div Half), lo % Half>>

ValueOf(t) == NumeralValue(NumeralDigits(t), IF HexPrefixed(t) THEN 16 ELSE 10)

FitsU32(v) == v[1] < Half
ModTwoPow32(v) == <<v[1] % Half, v[2]>>

\* The decimal digits a text begins with.
LeadingDigits(t) ==
    LET bad == {i \in 1..Len(t) : At(t, i) \notin DecimalChars}
    IN  IF bad = {} THEN t ELSE SubSeq(t, 1, Min(bad) - 1)

(***************************************************************************)
(* C11 as stated.  parse_immediate accepts exactly the grammar (`0x`/`0X`  *)
(* and hex digits, or one or more decimal digits), returns the numeral's   *)
(* value, and fails with 'Invalid hex digit' after the prefix and with     *)
(* 'Invalid decimal digit' otherwise on any other character.               *)
(***************************************************************************)
C11_ParsesExactlyTheGrammar ==
    token # "" =>
        IF InGrammar(token) THEN parsed = Ok(ValueOf(token))
        ELSE IF HexPrefixed(token) THEN parsed = Err("Invalid hex digit")
        ELSE parsed = Err("Invalid decimal digit")

(***************************************************************************)
(* C11, amended.  A numeral of the grammar below 2^32 is returned as its   *)
(* value; a hexadecimal numeral from 2^32 on is accepted and reduced       *)
(* modulo 2^32; a decimal numeral from 2^32 on is reduced modulo 2^32 in a *)
(* build without overflow checks and aborts in a build with them.  Any     *)
(* other text fails with 'Invalid hex digit' after the prefix and with     *)
(* 'Invalid decimal digit' otherwise, unless the decimal digits before the *)
(* offending character already overflow a build with overflow checks.      *)
(***************************************************************************)
C11_ParsesTheGrammarBelowTwoPow32 ==
    token # "" =>
        \E v \in {IF InGrammar(token) THEN ValueOf(token)
                  ELSE NumeralValue(LeadingDigits(token), 10)} :
            CASE InGrammar(token) /\ FitsU32(v) -> parsed = Ok(v)
              [] InGrammar(token) /\ HexPrefixed(token) -> parsed = Ok(ModTwoPow32(v))
              [] InGrammar(token) ->
                     parsed = IF overflow_checks THEN Panic ELSE Ok(ModTwoPow32(v))
              [] HexPrefixed(token) -> parsed = Err("Invalid hex digit")
              [] OTHER ->
                     parsed = IF overflow_checks /\ ~FitsU32(v)
                              THEN Panic ELSE Err("Invalid decimal digit")

\* `0xFF` has been parsed as 255.
C11_Witness == token = "0xFF" /\ parsed = Ok(<<0, 255>>)

(***************************************************************************)
(* C12.  parse_immediate never rejects or aborts on a numeral for being    *)
(* too large: for every numeral of the grammar the result is its value     *)
(* modulo 2^32, so `4294967296` is parsed as 0.                            *)
(***************************************************************************)
C12_LargeNumeralsWrap ==
    /\ (token # "" /\ InGrammar(token)) => parsed = Ok(ModTwoPow32(ValueOf(token)))
    /\ token = "4294967296" => parsed = Ok(Zero32)

(***************************************************************************)
(* C13.  Register values are written only when execute returns success:    *)
(* no step of execute writes to the writer except its successful return,   *)
(* which writes the report; when it returns an error the writer holds what *)
(* it held when execute was entered.                                       *)
(***************************************************************************)
C13_ErrorsWriteNothing ==
    [][(pc \in {"loop", "after_loop"}) =>
           IF outcome'.kind = "Ok" THEN writer' = writer \o Report(cpu')
           ELSE writer' = writer]_vars

\* A run has failed after changing a register, and only the banner of
\* execute_code_file is in the writer.
C13_Witness ==
    /\ pc = "idle"
    /\ outcome = Err("Unexpected end of program")
    /\ cpu.ebx # Zero32
    /\ writer = Banner

(***************************************************************************)
(* C14.  execute_code_file returns 'File not found' when the name is not   *)
(* in the store and 'Invalid UTF-8 in file' when the stored bytes are not  *)
(* valid UTF-8; in both cases compile_code and execute are not called and  *)
(* nothing is written.  Compilation is attempted only on text that passed  *)
(* both checks, and execute is called only after a successful compile.     *)
(***************************************************************************)
StoredNames ==
    {"demo.code", "nop.code", "bad.code", "cut.code", "cafe.code", "empty.code",
     "foo.code"}

\* The stored files whose bytes are text: bad.code ends with the byte FF,
\* cut.code with the first byte of a two-byte sequence.
TextFileNames == {"demo.code", "nop.code", "cafe.code", "empty.code", "foo.code"}

C14_ChecksPrecedeCompileAndRun ==
    /\ [](filename # "" =>
             /\ filename \notin StoredNames =>
                    outcome = Err("File not found") /\ pc = "idle"
             /\ filename \in StoredNames \ TextFileNames =>
                    outcome = Err("Invalid UTF-8 in file") /\ pc = "idle")
    /\ [](pc \in {"compiled", "loop", "after_loop"} =>
             filename \in TextFileNames /\ compile_result.kind = "Ok")
    /\ [][(filename' \notin TextFileNames) =>
             UNCHANGED <<compiles, runs, writer, memory, cpu, compile_result,
                         history, input>>]_vars
    /\ [][compiles' # compiles => filename' \in TextFileNames]_vars

\* A file that is no UTF-8 has been refused after a run that wrote its
\* report.
C14_Witness ==
    /\ filename = "bad.code"
    /\ outcome = Err("Invalid UTF-8 in file")
    /\ runs = 1
    /\ writer # ""

(***************************************************************************)
(* C15.  Running the compiled source `mov eax, 5 / cmp eax, 5 / je 0 /     *)
(* halt` sets the equal flag at the CMP, takes the conditional jump with   *)
(* offset 0 so that the instruction pointer lands exactly on the HALT at   *)
(* offset 12, and ends successfully with EAX = 5 and the equal flag set.   *)
(***************************************************************************)
C15_EqualJumpLandsOnHalt ==
    /\ [](SourceText(EqualJumpListing) = "mov eax, 5\ncmp eax, 5\nje 0\nhalt")
    /\ [](input = EqualJumpListing /\ pc \in {"loop", "after_loop"} =>
             /\ bytecode_len = 13
             /\ Load(memory, 12) = OpInt3
             /\ cpu.eip \in {0, 5, 10, 12}
             /\ cpu.eax = IF cpu.eip >= 5 THEN U32(5) ELSE Zero32
             /\ cpu.flags = IF cpu.eip >= 10 THEN EqualFlag ELSE 0
             /\ instruction_count = CASE cpu.eip = 0 -> 0 [] cpu.eip = 5 -> 1
                                      [] cpu.eip = 10 -> 2 [] OTHER -> 3)
    /\ [][input = EqualJumpListing /\ pc = "loop" /\ cpu.eip = 10 =>
             cpu'.eip = 12 /\ opcode' = OpJe /\ pc' = "loop"]_vars
    /\ [](\A k \in 1..Len(history) :
             history[k].input = EqualJumpListing =>
                 /\ history[k].outcome = Ok(<<>>)
                 /\ history[k].stopped = "break"
                 /\ history[k].count = 3
                 /\ history[k].cpu.eax = U32(5)
                 /\ history[k].cpu.ebx = Zero32
                 /\ history[k].cpu.flags = EqualFlag
                 /\ history[k].cpu.eip = 12)

C15_Witness ==
    /\ pc = "idle"
    /\ input = EqualJumpListing
    /\ runs = 1
    /\ outcome = Ok(<<>>)
    /\ opcode = OpInt3
    /\ cpu.eip = 12
    /\ cpu.eax = U32(5)
    /\ cpu.flags = EqualFlag

(***************************************************************************)
(* C16.  When the opcode fetched at the instruction pointer is that of a   *)
(* multi-byte instruction (MOV reg,imm and CMP: 5 bytes; ADD, SUB, JE,     *)
(* JMP: 2 bytes) and instruction pointer + length exceeds the program      *)
(* length, execute fails with 'Unexpected end of program' without changing *)
(* a register, the flags or the instruction pointer, and without reading   *)
(* an operand byte.                                                        *)
(***************************************************************************)
MultiByteLength(op) ==
    CASE op \in {OpMovEax, OpMovEbx, OpMovEcx, OpMovEdx, OpCmp} -> 5
      [] op \in {OpAdd, OpSub, OpJe, OpJmp} -> 2
      [] OTHER -> 0

Truncated ==
    /\ pc = "loop"
    /\ LoopCondition(cpu, bytecode_len, instruction_count)
    /\ MultiByteLength(Load(memory, cpu.eip)) > 0
    /\ cpu.eip + MultiByteLength(Load(memory, cpu.eip)) > bytecode_len

C16_TruncatedInstructionFails ==
    [][Truncated =>
           /\ outcome' = Err("Unexpected end of program")
           /\ pc' = "idle"
           /\ cpu' = cpu
           /\ reads' = {cpu.eip}
           /\ instruction_count' = instruction_count
           /\ writer' = writer]_vars

\* An ADD whose second byte lies beyond the program has been refused.
C16_Witness ==
    /\ pc = "idle"
    /\ input = JumpInto("01")
    /\ opcode = OpAdd
    /\ cpu.eip = 6
    /\ bytecode_len = 7
    /\ reads = {6}
    /\ outcome = Err("Unexpected end of program")

(***************************************************************************)
(* C17.  During execute every index at which program memory is read is     *)
(* below the program length (the opcode only while eip < len, operand      *)
(* bytes only after eip + length <= len was confirmed), and len <= 4096;   *)
(* hence the bytes past the logical length, zero fill or remains of an     *)
(* earlier compile, never influence a run.                                 *)
(***************************************************************************)
\* The buffer with the cells from `len` on that lie within an instruction's
\* reach of eip holding b instead of what they hold.
BeyondLength(mem, len, eip, b) ==
    LET kept == {i \in DOMAIN mem : i < len}
        past == {i \in eip..(eip + 4) : i >= len /\ i < MemorySize}
    IN  [i \in kept \cup past |-> IF i \in past THEN b ELSE mem[i]]

PastLengthValues == {0, 1, OpInt3, OpCmp, OpJmp, 255}

C17_ReadsStayBelowLength ==
    /\ pc \in {"loop", "after_loop"} => bytecode_len <= MemorySize
    /\ \A i \in reads : 0 <= i /\ i < bytecode_len
    /\ pc = "loop" /\ LoopCondition(cpu, bytecode_len, instruction_count) =>
           \A b \in PastLengthValues :
               Step(cpu, BeyondLength(memory, bytecode_len, cpu.eip, b), bytecode_len)
                   = Step(cpu, memory, bytecode_len)

\* The run of a program shorter than the one compiled before it has come to
\* the end of the program, where a byte of the earlier one remains.
C17_Witness ==
    /\ pc = "loop"
    /\ compiles = 2
    /\ reads # {}
    /\ cpu.eip = bytecode_len
    /\ Load(memory, cpu.eip) # 0

(***************************************************************************)
(* C18.  The lengths of the instructions, with `regreg` the length of ADD  *)
(* and SUB: 1 byte for NOP, HALT and RET, 5 bytes for MOV reg,imm32 and    *)
(* CMP EAX,imm32, 2 bytes for JE/JZ and JMP.                               *)
(***************************************************************************)
RECURSIVE LineLength(_, _)
LineLength(l, regreg) ==
    CASE l.mn \in {"nop", "halt", "stop", "ret"} -> 1
      [] l.mn \in {"add", "sub"} -> regreg
      [] l.mn \in {"mov", "cmp"} -> 5
      [] l.mn \in {"je", "jz", "jmp"} -> 2
      [] l.mn = "rep" -> l.n * LineLength(l.line, regreg)

RECURSIVE ListingLength(_, _, _)
ListingLength(listing, k, regreg) ==
    IF k > Len(listing) THEN 0
    ELSE LineLength(listing[k], regreg) + ListingLength(listing, k + 1, regreg)

OpcodeLength(op, regreg) ==
    CASE op \in {OpNop, OpInt3, OpRet} -> 1
      [] op \in {OpAdd, OpSub} -> regreg
      [] op \in {OpMovEax, OpMovEbx, OpMovEcx, OpMovEdx, OpCmp} -> 5
      [] op \in {OpJe, OpJmp} -> 2
      [] OTHER -> 0

\* The emitted program is as long as its lines' lengths together.
EmitsLengths(regreg) ==
    (compiles >= 1 /\ AllValid(input) /\ compile_result.kind = "Ok") =>
        compile_result.val = ListingLength(input, 1, regreg)

\* A loop step that executed the instruction at eip and was not a taken jump.
ExecutedInPlace ==
    /\ pc = "loop"
    /\ LoopCondition(cpu, bytecode_len, instruction_count)
    /\ pc' \in {"loop", "after_loop"}
    /\ OpcodeLength(Load(memory, cpu.eip), 1) # 0
    /\ Load(memory, cpu.eip) # OpJmp
    /\ ~(Load(memory, cpu.eip) = OpJe /\ EqualSet(cpu.flags))

\* C18 as stated: ADD and SUB are one byte long, and every instruction
\* executed without a taken jump advances the instruction pointer by its
\* length.
C18_LengthsAsListed ==
    /\ [](EmitsLengths(1))
    /\ [][ExecutedInPlace =>
              cpu'.eip = cpu.eip + OpcodeLength(Load(memory, cpu.eip), 1)]_vars

\* C18 (as amended).  Every instruction the assembler emits is 1 byte long
\* for NOP, HALT and RET, 2 bytes for ADD, SUB, JE/JZ and JMP, 5 bytes for
\* MOV reg,imm32 and CMP EAX,imm32; the machine advances the instruction
\* pointer by that length when it executes a NOP, MOV, ADD, SUB, CMP or a
\* JE that is not taken, and HALT and RET end the run with the instruction
\* pointer left on them.
C18_LengthsAsEmitted ==
    /\ [](EmitsLengths(2))
    /\ [][ExecutedInPlace =>
              cpu'.eip = IF Load(memory, cpu.eip) \in {OpInt3, OpRet} THEN cpu.eip
                         ELSE cpu.eip + OpcodeLength(Load(memory, cpu.eip), 2)]_vars

\* The ADD of `mov eax, 10 / mov ebx, 5 / add eax, ebx / halt` has been
\* executed: it began at 10 and the HALT is at 12, the last of 13 bytes.
C18_Witness ==
    /\ pc = "loop"
    /\ input = SampleListing
    /\ compile_result = Ok(13)
    /\ opcode = OpAdd
    /\ cpu.eip = 12
    /\ Load(memory, 12) = OpInt3

(***************************************************************************)
(* C19.  A conditional jump (0x74) sets the instruction pointer to         *)
(* eip + 2 + offset when the equal flag (0x40) is set and to eip + 2       *)
(* otherwise; an unconditional jump (0xEB) always sets it to               *)
(* eip + 2 + offset; offset is the second byte read as a signed 8-bit      *)
(* value (-128..127).  Neither jump changes a register or the flags, and   *)
(* in a fresh run a conditional jump executed before any CMP is not taken: *)
(* a run begins with the flags clear, only a CMP changes them, and a run   *)
(* of a program without the byte 0x3D has them clear throughout.  (A       *)
(* target below 0 stands for the usize the cast wraps it to.)              *)
(***************************************************************************)
SignedByte(b) == ((b + 128) % 256) - 128

\* A loop step that executed the jump at eip.
JumpExecuted ==
    /\ pc = "loop"
    /\ LoopCondition(cpu, bytecode_len, instruction_count)
    /\ Load(memory, cpu.eip) \in {OpJe, OpJmp}
    /\ pc' = "loop"

NoCmpByte == \A i \in DOMAIN memory : i < bytecode_len => memory[i] # OpCmp

C19_JumpsAddSignedOffset ==
    /\ [][JumpExecuted =>
              \E off \in {SignedByte(Load(memory, cpu.eip + 1))} :
                  /\ off \in -128..127
                  /\ cpu'.eip = IF Load(memory, cpu.eip) = OpJmp \/ (cpu.flags \div EqualFlag) % 2 = 1
                                THEN cpu.eip + 2 + off ELSE cpu.eip + 2
                  /\ cpu' = [cpu EXCEPT !.eip = cpu'.eip]
                  /\ instruction_count' = instruction_count + 1]_vars
    /\ [][pc # "loop" /\ pc' = "loop" => cpu'.flags = 0]_vars
    /\ [][pc = "loop" /\ cpu'.flags # cpu.flags => Load(memory, cpu.eip) = OpCmp]_vars
    /\ [](pc = "loop" /\ NoCmpByte => cpu.flags = 0)

\* The taken je of BackwardJeText has gone back from 10 to 1.
C19_Witness ==
    /\ pc = "loop"
    /\ input = BackwardJeText
    /\ opcode = OpJe
    /\ cpu.eip = 1
    /\ cpu.flags = EqualFlag
    /\ instruction_count = 3

(***************************************************************************)
(* C20.  In every reachable state of a run the flags word is either 0 or   *)
(* 0x40, and only CMP changes it: after CMP EAX,imm the equal bit is set   *)
(* if and only if EAX equals the immediate, while MOV, ADD, SUB, NOP and   *)
(* the jumps leave the flags unchanged.  CMP changes no register and       *)
(* advances the instruction pointer by 5.                                  *)
(***************************************************************************)
\* The immediate after the opcode at eip, low byte first, as the two halves
\* of a register.
ImmediateAfter(eip) ==
    <<(Load(memory, eip + 4) * 256) + Load(memory, eip + 3),
      (Load(memory, eip + 2) * 256) + Load(memory, eip + 1)>>

\* A loop step that executed the CMP at eip.
CmpExecuted ==
    /\ pc = "loop"
    /\ LoopCondition(cpu, bytecode_len, instruction_count)
    /\ Load(memory, cpu.eip) = OpCmp
    /\ pc' = "loop"

C20_OnlyCmpSetsTheEqualFlag ==
    /\ [](cpu.flags \in {0, EqualFlag})
    /\ [][CmpExecuted =>
              /\ cpu'.flags = IF cpu.eax = ImmediateAfter(cpu.eip) THEN EqualFlag ELSE 0
              /\ cpu'.eip = cpu.eip + 5
              /\ cpu' = [cpu EXCEPT !.flags = cpu'.flags, !.eip = cpu'.eip]]_vars
    /\ [][(pc = "loop" /\ LoopCondition(cpu, bytecode_len, instruction_count)
              /\ Load(memory, cpu.eip) # OpCmp) => cpu'.flags = cpu.flags]_vars
    /\ [][(pc = "loop" /\ ~LoopCondition(cpu, bytecode_len, instruction_count))
              => cpu' = cpu]_vars

\* A CMP with an unequal immediate has cleared the flag that the CMP before
\* it had set.
C20_Witness ==
    /\ pc = "loop"
    /\ input = <<MovL("eax", "10"), CmpL("10"), CmpL("5"), HaltL>>
    /\ opcode = OpCmp
    /\ cpu.eip = 15
    /\ cpu.eax = U32(10)
    /\ cpu.flags = 0

(***************************************************************************)
(* C21.  ADD sets EAX to (EAX + EBX) mod 2^32 and SUB sets EAX to          *)
(* (EAX - EBX) mod 2^32, with no error on overflow or underflow; both      *)
(* leave EBX, ECX, EDX and the flags unchanged and advance the instruction *)
(* pointer by 2, whatever the value of the second encoding byte.           *)
(***************************************************************************)
\* r = a + b (mod 2^32) on halves: r is a u32, its low half is that of the
\* sum of the low halves, and its high half that of the sum of the high
\* halves and the carry.
IsSumMod32(r, a, b) ==
    /\ r[1] \in 0..(Half - 1)
    /\ r[2] \in 0..(Half - 1)
    /\ (a[2] + b[2] - r[2]) \in {0, Half}
    /\ (a[1] + b[1] + ((a[2] + b[2] - r[2]) \div Half) - r[1]) \in {0, Half}

\* A loop state whose fetched opcode is `op`, with both bytes in the program.
AtRegReg(op) ==
    /\ pc = "loop"
    /\ LoopCondition(cpu, bytecode_len, instruction_count)
    /\ Load(memory, cpu.eip) = op
    /\ cpu.eip + 2 <= bytecode_len

C21_AddSubWrap ==
    /\ [][AtRegReg(OpAdd) =>
              /\ IsSumMod32(cpu'.eax, cpu.eax, cpu.ebx)
              /\ cpu' = [cpu EXCEPT !.eax = cpu'.eax, !.eip = cpu.eip + 2]
              /\ pc' = "loop"
              /\ instruction_count' = instruction_count + 1]_vars
    /\ [][AtRegReg(OpSub) =>
              /\ IsSumMod32(cpu.eax, cpu'.eax, cpu.ebx)
              /\ cpu' = [cpu EXCEPT !.eax = cpu'.eax, !.eip = cpu.eip + 2]
              /\ pc' = "loop"
              /\ instruction_count' = instruction_count + 1]_vars

\* 0xFFFFFFFF + 0x00010001 has been added: EAX holds 0x00010000.
C21_Witness ==
    /\ pc = "loop"
    /\ input = Text("mov eax, 4294967295\nmov ebx, 0x10001\nadd eax, ebx\nhalt")
    /\ opcode = OpAdd
    /\ cpu.eip = 12
    /\ cpu.ebx = <<1, 1>>
    /\ cpu.eax = <<1, 0>>

(***************************************************************************)
(* C22.  Executing MOV reg,imm (opcodes B8, BB, B9, BA for EAX, EBX, ECX,  *)
(* EDX) sets exactly the named register to the little-endian value of the  *)
(* next 4 bytes, leaves the other three registers and the flags unchanged, *)
(* and advances the instruction pointer by 5; so compiling `mov <reg>, N`  *)
(* followed by `halt` and running it ends with that register equal to      *)
(* N mod 2^32 and the others 0.                                            *)
(***************************************************************************)
MovRegister(op) ==
    CASE op = OpMovEax -> "eax" [] op = OpMovEbx -> "ebx"
      [] op = OpMovEcx -> "ecx" [] op = OpMovEdx -> "edx"

\* A loop state whose fetched opcode is a MOV with its five bytes in the
\* program.
AtMov ==
    /\ pc = "loop"
    /\ LoopCondition(cpu, bytecode_len, instruction_count)
    /\ Load(memory, cpu.eip) \in {OpMovEax, OpMovEbx, OpMovEcx, OpMovEdx}
    /\ cpu.eip + 5 <= bytecode_len

\* Sources `mov <reg>, N / halt` with the register and N mod 2^32.
MovHaltCases ==
    {[input |-> <<MovL("eax", "10"), HaltL>>, reg |-> "eax", val |-> <<0, 10>>],
     [input |-> <<MovL("ebx", "5"), HaltL>>, reg |-> "ebx", val |-> <<0, 5>>],
     [input |-> <<MovL("ecx", "0xFF"), HaltL>>, reg |-> "ecx", val |-> <<0, 255>>],
     [input |-> <<MovL("edx", "4294967295"), HaltL>>, reg |-> "edx",
      val |-> <<65535, 65535>>],
     [input |-> Text("mov ebx, 0x1000000FF\nhalt"), reg |-> "ebx", val |-> <<0, 255>>],
     [input |-> Text("mov eax, 4294967296\nhalt"), reg |-> "eax", val |-> <<0, 0>>]}

MovHaltEndsWith(c) ==
    (compiles >= 1 /\ input = c.input) =>
        /\ compile_result = Ok(6)
        /\ \A k \in 1..Len(history) :
               history[k].input = c.input =>
                   /\ history[k].outcome = Ok(<<>>)
                   /\ history[k].cpu = [VirtualCpuNew EXCEPT ![c.reg] = c.val, !.eip = 5]

C22_MovLoadsImmediate ==
    /\ [][AtMov =>
              /\ cpu' = [cpu EXCEPT ![MovRegister(Load(memory, cpu.eip))] =
                                        ImmediateAfter(cpu.eip),
                                    !.eip = cpu.eip + 5]
              /\ pc' = "loop"]_vars
    /\ [](\A c \in MovHaltCases : MovHaltEndsWith(c))

(***************************************************************************)
(* C23.  When the byte fetched at the instruction pointer is none of 90,   *)
(* B8, BB, B9, BA, 01, 29, 3D, 74, EB, CC, C3, execute fails with          *)
(* 'Unknown opcode' immediately, without changing registers or flags and   *)
(* without writing a report.                                               *)
(***************************************************************************)
\* 0x90, 0xB8, 0xBB, 0xB9, 0xBA, 0x01, 0x29, 0x3D, 0x74, 0xEB, 0xCC, 0xC3.
OpcodeBytes == {144, 184, 187, 185, 186, 1, 41, 61, 116, 235, 204, 195}

AtUnknownByte ==
    /\ pc = "loop"
    /\ LoopCondition(cpu, bytecode_len, instruction_count)
    /\ Load(memory, cpu.eip) \notin OpcodeBytes

C23_UnknownOpcodeFails ==
    /\ [][AtUnknownByte =>
              /\ outcome' = Err("Unknown opcode")
              /\ pc' = "idle"
              /\ cpu' = cpu
              /\ writer' = writer
              /\ instruction_count' = instruction_count
              /\ reads' = {cpu.eip}]_vars
    /\ [][(pc = "loop" /\ outcome' = Err("Unknown opcode")) => AtUnknownByte]_vars

\* A jump into the immediate of a mov has met the byte 42 with EAX = 7 and
\* the equal flag set.
C23_Witness ==
    /\ pc = "idle"
    /\ input = Text("mov eax, 7\ncmp eax, 7\njmp 1\nmov ebx, 0x42\nhalt")
    /\ outcome = Err("Unknown opcode")
    /\ opcode = 66
    /\ cpu.eip = 13
    /\ cpu.eax = <<0, 7>>
    /\ cpu.flags = EqualFlag
    /\ writer = Banner

(***************************************************************************)
(* C24.  For a `mov` line with room left in the buffer the errors have a   *)
(* fixed precedence: fewer than 3 whitespace-separated tokens give         *)
(* 'MOV requires 2 operands' (also `mov eax,10` written without a space);  *)
(* otherwise a destination (after stripping trailing commas) other than    *)
(* the lowercase eax, ebx, ecx, edx gives 'Unsupported MOV destination     *)
(* register', whatever the source operand; otherwise a source that is not  *)
(* a valid immediate, such as a register name in `mov ebx, eax`, gives     *)
(* 'Invalid immediate value'.                                              *)
(***************************************************************************)
MovOutcome(d, s) ==
    IF d.reg = "" THEN Err("Unsupported MOV destination register")
    ELSE IF ~s.valid THEN Err("Invalid immediate value")
    ELSE Ok(5)

MovCases ==
    {[input |-> Text(MovLine(d, s)), ret |-> MovOutcome(d, s)] :
        d \in MovDests, s \in MovSources}
    \cup {[input |-> Text(t), ret |-> Err("MOV requires 2 operands")] :
             t \in {"mov", "mov eax,10", "  mov   eax,  ", "mov foo"}}

C24_MovErrorPrecedence ==
    compiles >= 1 =>
        \A c \in MovCases :
            input = c.input =>
                /\ compile_result = c.ret
                /\ c.ret.kind = "Err" => (pc = "idle" /\ outcome = c.ret)

\* `mov esi, eax`: the destination is reported, not the source.
C24_Witness ==
    /\ compiles = 1
    /\ input = Text("mov esi, eax")
    /\ compile_result = Err("Unsupported MOV destination register")

(***************************************************************************)
(* C25.  Only the mnemonic is case-folded: a line compiles to the same     *)
(* bytes whatever the ASCII case of its first token (`MOV`, `Halt`, `JZ`), *)
(* while register operands are matched exactly in lower case, so           *)
(* `mov EAX, 1` fails with the unsupported-destination error and           *)
(* `add EAX, EBX` with the unsupported-operands error.                     *)
(***************************************************************************)
UpperOperandError(t) ==
    CASE t \in {"mov EAX, 1", "MOV Eax, 1"} -> Err("Unsupported MOV destination register")
      [] t \in {"add EAX, EBX", "add eax, EBX", "add Eax, ebx"} ->
             Err("Unsupported ADD operands")
      [] t \in {"sub EAX, EBX", "sub eax, Ebx"} -> Err("Unsupported SUB operands")
      [] t = "cmp EAX, 1" -> Err("Unsupported CMP operands")

\* The line compiled as the lower-case spelling of the family compiles.
SameAsLowerCase(f) ==
    \E r \in {compile_code(ZeroMemory, f.lower \o f.rest, overflow_checks)} :
        /\ r.ret.kind = "Ok"
        /\ r.ret.val >= 1
        /\ compile_result = r.ret
        /\ \A i \in 0..(r.ret.val - 1) : Load(memory, i) = Load(r.mem, i)

C25_OnlyMnemonicIsFolded ==
    compiles >= 1 =>
        /\ \A f \in MnemonicFamilies :
               \A sp \in f.spellings :
                   input = Text(sp \o f.rest) => SameAsLowerCase(f)
        /\ \A t \in UpperOperandLines :
               input = Text(t) => compile_result = UpperOperandError(t)

\* `mOv ebx, 10` has compiled to BB 0A 00 00 00.
C25_Witness ==
    /\ compiles = 1
    /\ input = Text("mOv ebx, 10")
    /\ compile_result = Ok(5)
    /\ Load(memory, 0) = OpMovEbx
    /\ Load(memory, 1) = 10

(***************************************************************************)
(* C26.  Tokens beyond the eighth on a line are dropped silently: a line   *)
(* with more than 8 whitespace-separated tokens compiles exactly as the    *)
(* line made of its first 8 tokens and never fails because of the extra    *)
(* tokens; tokens after an instruction's required operands (such as an     *)
(* inline `; comment`) are likewise ignored.                               *)
(***************************************************************************)
\* What the compile of `text` on a new executor returns and leaves in the
\* buffer is what the last compile returned and left.
CompiledAs(text) ==
    \E r \in {compile_code(ZeroMemory, text, overflow_checks)} :
        /\ compile_result = r.ret
        /\ memory = r.mem

\* The lines have more than 8 tokens, and begin with those of `first8` and
\* of `bare`.
LongLinesAreLong ==
    \A c \in LongLines :
        /\ Len(SplitWhitespace(c.line)) > 8
        /\ SubSeq(SplitWhitespace(c.line), 1, 8) = SplitWhitespace(c.first8)
        /\ SubSeq(SplitWhitespace(c.line), 1, Len(SplitWhitespace(c.bare)))
               = SplitWhitespace(c.bare)

C26_ExtraTokensAreDropped ==
    /\ LongLinesAreLong
    /\ compiles >= 1 =>
           \A c \in LongLines :
               input = Text(c.line) =>
                   /\ CompiledAs(c.first8)
                   /\ CompiledAs(c.bare)
                   /\ c.bare \notin {"foo", "mov ebx, eax"} => compile_result.kind = "Ok"

\* The first instruction line of the sample program, 11 tokens long, has
\* compiled to the five bytes of `mov eax, 10`.
C26_Witness ==
    /\ compiles = 1
    /\ input = Text("mov eax, 10     ; Put the number 10 into register EAX")
    /\ compile_result = Ok(5)
    /\ Load(memory, 0) = OpMovEax
    /\ Load(memory, 1) = 10
    /\ DOMAIN memory = {0, 1}

(***************************************************************************)
(* C27.  A jump operand is parsed with the same unsigned immediate parser  *)
(* as other operands and only its low 8 bits are stored; the machine reads *)
(* that byte as signed.  Operands congruent to 128..255 modulo 256         *)
(* therefore act as backward offsets -128..-1: `jmp 254` compiles to       *)
(* EB FE, and running it ends with 'Program execution limit exceeded'      *)
(* after 10000 executed jumps.                                             *)
(***************************************************************************)
\* A loop step that executed a taken jump whose offset byte is 128 or more.
BackwardJumpTaken ==
    /\ JumpExecuted
    /\ Load(memory, cpu.eip) = OpJmp \/ cpu.flags = EqualFlag
    /\ Load(memory, cpu.eip + 1) >= 128

C27_HighOperandsJumpBack ==
    /\ [](compiles >= 1 =>
             /\ \A c \in JumpLines :
                    input = Text("halt\n" \o c.line) =>
                        /\ compile_result = Ok(3)
                        /\ Load(memory, 1) = c.bytes[1]
                        /\ Load(memory, 2) = c.bytes[2]
             /\ input = <<JmpL("254")>> =>
                    /\ compile_result = Ok(2)
                    /\ Load(memory, 0) = 235
                    /\ Load(memory, 1) = 254
                    /\ pc = "loop" => cpu.eip = 0)
    /\ [][BackwardJumpTaken =>
              /\ cpu'.eip = (cpu.eip + 2) - (256 - Load(memory, cpu.eip + 1))
              /\ cpu'.eip \in (cpu.eip - 126)..(cpu.eip + 1)]_vars
    /\ [](\A k \in 1..Len(history) :
             history[k].input = <<JmpL("254")>> =>
                 /\ history[k].outcome = Err("Program execution limit exceeded")
                 /\ history[k].count = 10000
                 /\ history[k].stopped = "condition")

\* `jmp 254` has run: 10000 jumps, each back to offset 0, then the error.
C27_Witness ==
    /\ pc = "idle"
    /\ input = <<JmpL("254")>>
    /\ outcome = Err("Program execution limit exceeded")
    /\ instruction_count = 10000
    /\ opcode = OpJmp
    /\ cpu.eip = 0
    /\ writer = Banner

(***************************************************************************)
(* C28.  Decoding the output of any successful compile sequentially from   *)
(* offset 0, each instruction advancing by the length the machine uses for *)
(* its opcode, always lands on an opcode byte the assembler emitted and    *)
(* ends exactly at the program length; hence a compiled program in which   *)
(* no jump with a non-zero offset is taken never fails with 'Unknown       *)
(* opcode' or 'Unexpected end of program'.                                 *)
(***************************************************************************)
\* The length execute gives an instruction: what it adds to eip (lines 289,
\* 299, 338, 343, 359, 365-368, 373), one byte for the terminators.
MachineLength(b) ==
    CASE b \in {OpNop, OpInt3, OpRet} -> 1
      [] b \in {OpMovEax, OpMovEbx, OpMovEcx, OpMovEdx, OpCmp} -> 5
      [] b \in {OpAdd, OpSub, OpJe, OpJmp} -> 2
      [] OTHER -> 0

\* One instruction further from offset p of a program of len bytes; -1 when
\* the byte at p is no opcode, p itself once the program is left.
DecodeStep(p, len) ==
    IF p < 0 \/ p >= len THEN p
    ELSE IF Load(memory, p) \notin OpcodeBytes THEN -1
    ELSE p + MachineLength(Load(memory, p))

\* n instructions further from offset p.
RECURSIVE DecodeEnd(_, _, _)
DecodeEnd(p, n, len) ==
    IF n = 0 \/ p < 0 \/ p >= len THEN p
    ELSE IF n = 1 THEN DecodeStep(p, len)
    ELSE DecodeEnd(DecodeEnd(p, n \div 2, len), n - (n \div 2), len)

\* Offset p starts an instruction of the sequential decoding from 0.
OnDecodePath(p) ==
    /\ p >= 0
    /\ \E n \in 0..p : DecodeEnd(0, n, bytecode_len) = p

\* A loop step that executed and counted an instruction.
InstructionCounted ==
    /\ pc = "loop"
    /\ LoopCondition(cpu, bytecode_len, instruction_count)
    /\ instruction_count' = instruction_count + 1

\* The instruction at eip is a jump that is taken and whose offset is not 0.
NonZeroJumpAtEip ==
    /\ \/ Load(memory, cpu.eip) = OpJmp
       \/ Load(memory, cpu.eip) = OpJe /\ cpu.flags = EqualFlag
    /\ Load(memory, cpu.eip + 1) # 0

DecodeErrors == {Err("Unknown opcode"), Err("Unexpected end of program")}

C28_CompiledCodeDecodes ==
    /\ [](pc = "compiled" =>
             DecodeEnd(0, compile_result.val, compile_result.val) = compile_result.val)
    /\ [][(InstructionCounted /\ ~NonZeroJumpAtEip) =>
              cpu'.eip = cpu.eip + MachineLength(Load(memory, cpu.eip))]_vars
    /\ [][(pc = "loop" /\ outcome' \in DecodeErrors) =>
              /\ ~OnDecodePath(cpu.eip)
              /\ instruction_count >= 1]_vars

\* A program whose two jumps have offset 0 and are taken has run to its RET.
C28_Witness ==
    /\ pc = "idle"
    /\ input = Text("mov eax, 5\ncmp eax, 5\nje 0\nadd eax, ebx\njmp 0\nnop\nret")
    /\ compile_result = Ok(18)
    /\ outcome = Ok(<<>>)
    /\ instruction_count = 6
    /\ cpu.eip = 17
    /\ cpu.flags = EqualFlag
    /\ stopped_by = "break"

(***************************************************************************)
(* C29.  The terminating opcode is not counted against the budget but must *)
(* be fetched while fewer than 10000 instructions have been counted: a     *)
(* program that executes exactly 9999 non-terminating instructions and     *)
(* then fetches HALT or RET succeeds, while one that executes exactly      *)
(* 10000 non-terminating instructions fails with 'Program execution limit  *)
(* exceeded' even if the next byte is HALT or the instruction pointer has  *)
(* just reached the program length.                                        *)
(***************************************************************************)
\* The finished runs of the program of case c ended as the case says.
RanAsCase(c) ==
    \A k \in 1..Len(history) :
        history[k].input = Text(c.text) =>
            /\ history[k].count = c.count
            /\ history[k].outcome = IF c.ok THEN Ok(<<>>)
                                    ELSE Err("Program execution limit exceeded")
            /\ history[k].stopped = IF SourceText(history[k].input) \in
                                         {CountingLoop("2499", "nop\nnop\nnop\nhalt"),
                                          CountingLoop("2499", "nop\nnop\nnop\nret")}
                                    THEN "break" ELSE "condition"

\* A loop step that fetches a terminator.
TerminatorFetched ==
    /\ pc = "loop"
    /\ LoopCondition(cpu, bytecode_len, instruction_count)
    /\ Load(memory, cpu.eip) \in {OpInt3, OpRet}

C29_TerminatorWithinBudget ==
    /\ [](\A c \in LimitCases : RanAsCase(c))
    /\ [](\A k \in 1..Len(history) :
             /\ history[k].stopped = "break" => history[k].count < MaxInstructions
             /\ history[k].outcome = Ok(<<>>) <=> history[k].count < MaxInstructions)
    /\ [][TerminatorFetched =>
              /\ instruction_count' = instruction_count
              /\ instruction_count < MaxInstructions
              /\ pc' = "after_loop"]_vars
    /\ [][(pc = "loop" /\ instruction_count = MaxInstructions) =>
              /\ outcome' = Err("Program execution limit exceeded")
              /\ pc' = "idle"
              /\ opcode' = opcode
              /\ writer' = writer]_vars

\* 10000 instructions have been counted and the next byte is HALT: the run
\* has failed without fetching it.
C29_Witness ==
    /\ pc = "idle"
    /\ input = Text(CountingLoop("2500", "halt"))
    /\ instruction_count = 10000
    /\ cpu.eip = 16
    /\ Load(memory, 16) = OpInt3
    /\ bytecode_len = 17
    /\ opcode = OpJe
    /\ outcome = Err("Program execution limit exceeded")
    /\ \E k \in 1..Len(history) :
           /\ history[k].input = Text(CountingLoop("2499", "nop\nnop\nnop\nhalt"))
           /\ history[k].outcome = Ok(<<>>)
           /\ history[k].count = 9999

(***************************************************************************)
(* C30.  execute_code_file on a source that compiles to zero bytes (empty  *)
(* text, or only blank lines and lines starting with `;`) returns          *)
(* 'No executable code found' without calling execute and without writing  *)
(* anything to the output; execute is therefore only ever called with a    *)
(* program length of at least 1.                                           *)
(***************************************************************************)
\* The compile has returned Ok(0) and the length check is next.
AtZeroLength ==
    /\ pc = "compiled"
    /\ compile_result = Ok(0)

C30_ZeroBytesNeverExecuted ==
    /\ [](compiles >= 1 =>
             \A t \in EmptySources :
                 input = Text(t) =>
                     /\ compile_result = Ok(0)
                     /\ pc \in {"compiled", "idle"}
                     /\ pc = "idle" => outcome = Err("No executable code found")
                     /\ compiles = 1 => (writer = "" /\ runs = 0 /\ memory = ZeroMemory))
    /\ [][AtZeroLength =>
              /\ outcome' = Err("No executable code found")
              /\ pc' = "idle"
              /\ writer' = writer
              /\ runs' = runs
              /\ history' = history
              /\ cpu' = cpu
              /\ instruction_count' = instruction_count]_vars
    /\ [](pc \in {"loop", "after_loop"} => bytecode_len >= 1)
    /\ [](\A k \in 1..Len(history) : history[k].len >= 1)

\* A source of comment and blank lines has been turned down; nothing was
\* written and execute was not entered.
C30_Witness ==
    /\ pc = "idle"
    /\ compiles = 1
    /\ input = Text("; one\n; two\n\n   \n;three")
    /\ compile_result = Ok(0)
    /\ outcome = Err("No executable code found")
    /\ writer = ""
    /\ runs = 0
    /\ opcode = -1

====
